---- MODULE Spec2Model ----
(***************************************************************************)
(* The voice conversation orchestrator of PropTalk-Backend: the Twilio     *)
(* voice/status webhooks (app/controllers/twilio_controller,               *)
(* app/services/twilio_service/webhook_service.py), the in-memory          *)
(* conversation state store (app/services/conversation/state_manager.py)   *)
(* and the LLM client (app/services/ai/llm_service.py).                    *)
(*                                                                         *)
(* Text is modelled as Python sees it: a string is a sequence of           *)
(* one-character strings, so that lower(), strip() and the substring test  *)
(* `pattern in text` are computed character by character.                  *)
(***************************************************************************)
EXTENDS Integers, Sequences, FiniteSets, TLC

\* ------------------------------------------------------------------ text

UpperChars == <<"A","B","C","D","E","F","G","H","I","J","K","L","M","N","O","P","Q","R","S","T","U","V","W","X","Y","Z">>

LowerChars == <<"a","b","c","d","e","f","g","h","i","j","k","l","m","n","o","p","q","r","s","t","u","v","w","x","y","z">>

\* str.lower() on one ASCII character
LowerOf == [ch \in {UpperChars[i] : i \in 1..Len(UpperChars)} |->
               LowerChars[CHOOSE i \in 1..Len(UpperChars) : UpperChars[i] = ch]]

LowerChar(ch) == IF ch \in DOMAIN LowerOf THEN LowerOf[ch] ELSE ch

\* str.lower()
lower(s) == [i \in 1..Len(s) |-> LowerChar(s[i])]

Whitespace == {" ", "\t", "\n"}

\* str.strip(): drop leading and trailing whitespace
strip(s) ==
    IF \A i \in 1..Len(s) : s[i] \in Whitespace THEN <<>>
    ELSE LET lo == CHOOSE i \in 1..Len(s) :
                       s[i] \notin Whitespace /\ \A j \in 1..(i - 1) : s[j] \in Whitespace
             hi == CHOOSE i \in 1..Len(s) :
                       s[i] \notin Whitespace /\ \A j \in (i + 1)..Len(s) : s[j] \in Whitespace
         IN  SubSeq(s, lo, hi)

\* Python's `pat in s` on strings
contains(pat, s) ==
    \/ pat = <<>>
    \/ \E i \in 1..(Len(s) - Len(pat) + 1) :
           s[i] = pat[1] /\ SubSeq(s, i, i + Len(pat) - 1) = pat

\* str.startswith()
startswith(s, pre) == Len(pre) <= Len(s) /\ SubSeq(s, 1, Len(pre)) = pre

\* ------------------------------------------------- dialogue policy

wrong_person_patterns ==
    { <<"n","o"," ","i","'","m"," ","n","o","t">>, <<"n","o"," ","i"," ","a","m"," ","n","o","t">>, <<"i","'","m"," ","n","o","t">>, <<"i"," ","a","m"," ","n","o","t">>, <<"w","r","o","n","g"," ","p","e","r","s","o","n">>,
      <<"w","r","o","n","g"," ","n","u","m","b","e","r">>, <<"y","o","u"," ","h","a","v","e"," ","t","h","e"," ","w","r","o","n","g">>, <<"t","h","a","t","'","s"," ","n","o","t"," ","m","e">>,
      <<"t","h","a","t","'","s"," ","n","o","t"," ","m","y"," ","n","a","m","e">>, <<"n","o",","," ","t","h","a","t","'","s"," ","n","o","t">>, <<"n","o"," ","t","h","a","t","'","s"," ","n","o","t">>, <<"n","o"," ","i","t","'","s"," ","n","o","t">>,
      <<"n","o"," ","i","t"," ","i","s"," ","n","o","t">>, <<"t","h","i","s"," ","i","s"," ","n","o","t">>, <<"t","h","i","s"," ","i","s","n","'","t">> }

not_interested_patterns ==
    { <<"n","o","t"," ","i","n","t","e","r","e","s","t","e","d">>, <<"n","o","t"," ","i","n","t","r","e","s","t","e","d">>, <<"n","o"," ","i","n","t","e","r","e","s","t">>, <<"d","o","n","'","t"," ","w","a","n","t"," ","t","o"," ","s","e","l","l">>,
      <<"d","o","n","t"," ","w","a","n","t"," ","t","o"," ","s","e","l","l">>, <<"n","o","t"," ","s","e","l","l","i","n","g">>, <<"n","o","t"," ","g","o","i","n","g"," ","t","o"," ","s","e","l","l">>, <<"w","o","n","t"," ","s","e","l","l">>,
      <<"w","o","n","'","t"," ","s","e","l","l">>, <<"n","o","t"," ","l","o","o","k","i","n","g"," ","t","o"," ","s","e","l","l">> }

no_questions_patterns ==
    { <<"n","o"," ","q","u","e","s","t","i","o","n","s">>, <<"n","o"," ","q","u","e","s","t","i","o","n">>, <<"n","o",","," ","t","h","a","t","'","s"," ","a","l","l">>, <<"n","o"," ","t","h","a","t","'","s"," ","a","l","l">>,
      <<"n","o"," ","i","'","m"," ","g","o","o","d">>, <<"n","o"," ","i","m"," ","g","o","o","d">>, <<"n","o",","," ","i","'","m"," ","d","o","n","e">>, <<"n","o"," ","i","m"," ","d","o","n","e">>, <<"t","h","a","t","'","s"," ","a","l","l">>,
      <<"t","h","a","t","s"," ","a","l","l">>, <<"n","o"," ","m","o","r","e"," ","q","u","e","s","t","i","o","n","s">>, <<"n","o"," ","o","t","h","e","r"," ","q","u","e","s","t","i","o","n","s">>, <<"n","o","t","h","i","n","g"," ","e","l","s","e">>,
      <<"n","o"," ","n","o","t","h","i","n","g">>, <<"n","o",","," ","n","o","t","h","i","n","g">>, <<"n","o"," ","t","h","a","n","k","s">>, <<"n","o"," ","t","h","a","n","k"," ","y","o","u">>, <<"i","'","m"," ","a","l","l"," ","s","e","t">>,
      <<"i","m"," ","a","l","l"," ","s","e","t">>, <<"i","'","l","l"," ","c","a","l","l"," ","b","a","c","k">>, <<"i","l","l"," ","c","a","l","l"," ","b","a","c","k">>, <<"i","'","l","l"," ","c","a","l","l"," ","l","a","t","e","r">>,
      <<"i","l","l"," ","c","a","l","l"," ","l","a","t","e","r">>, <<"n","o","t"," ","i","n","t","e","r","e","s","t","e","d">>, <<"n","o","t"," ","r","i","g","h","t"," ","n","o","w">> }

ending_phrases ==
    { <<"s","o","r","r","y"," ","f","o","r"," ","t","h","e"," ","i","n","c","o","n","v","e","n","i","e","n","c","e">>, <<"a","p","o","l","o","g","i","z","e"," ","f","o","r"," ","t","h","e"," ","i","n","c","o","n","v","e","n","i","e","n","c","e">>,
      <<"h","a","v","e"," ","a"," ","g","o","o","d"," ","d","a","y">>, <<"h","a","v","e"," ","a"," ","g","r","e","a","t"," ","d","a","y">>, <<"g","o","o","d","b","y","e">>, <<"g","o","o","d"," ","b","y","e">>,
      <<"s","o","r","r","y"," ","t","o"," ","b","o","t","h","e","r"," ","y","o","u">> }

\* sum(1 for phrase in ending_phrases if phrase in llm_lower)
ending_count(llm_lower) ==
    Cardinality({ph \in ending_phrases : contains(ph, llm_lower)})

\* the threshold of `if ending_count >= 2`
MinEndingPhrases == 2

\* the mutant of C7: the bare "no" test only accepts "no" without the period
_should_end_call_no_period(user_input, llm_response, conversation_state, is_outbound) ==
    LET user_lower == lower(user_input)
        llm_lower  == lower(llm_response)
    IN  \/ /\ is_outbound
           /\ \/ strip(user_lower) = <<"n","o">>
              \/ \E p \in wrong_person_patterns : contains(p, user_lower)
              \/ \E p \in not_interested_patterns : contains(p, user_lower)
        \/ \E p \in no_questions_patterns : contains(p, user_lower)
        \/ ending_count(llm_lower) >= MinEndingPhrases

\* the mutant of C8: the bare "no" test is applied to inbound calls too
_should_end_call_any_direction(user_input, llm_response, conversation_state, is_outbound) ==
    LET user_lower == lower(user_input)
        llm_lower  == lower(llm_response)
    IN  \/ strip(user_lower) = <<"n","o">>
        \/ strip(user_lower) = <<"n","o",".">>
        \/ /\ is_outbound
           /\ \/ \E p \in wrong_person_patterns : contains(p, user_lower)
              \/ \E p \in not_interested_patterns : contains(p, user_lower)
        \/ \E p \in no_questions_patterns : contains(p, user_lower)
        \/ ending_count(llm_lower) >= MinEndingPhrases

\* the mutant of C9: one closing phrase is enough to end the call
_should_end_call_one_phrase(user_input, llm_response, conversation_state, is_outbound) ==
    LET user_lower == lower(user_input)
        llm_lower  == lower(llm_response)
    IN  \/ /\ is_outbound
           /\ \/ strip(user_lower) = <<"n","o">>
              \/ strip(user_lower) = <<"n","o",".">>
              \/ \E p \in wrong_person_patterns : contains(p, user_lower)
              \/ \E p \in not_interested_patterns : contains(p, user_lower)
        \/ \E p \in no_questions_patterns : contains(p, user_lower)
        \/ ending_count(llm_lower) >= 1

\* _should_end_call: TRUE ends the call. conversation_state is not read.
_should_end_call(user_input, llm_response, conversation_state, is_outbound) ==
    LET user_lower == lower(user_input)
        llm_lower  == lower(llm_response)
    IN  \/ /\ is_outbound
           /\ \/ strip(user_lower) = <<"n","o">>
              \/ strip(user_lower) = <<"n","o",".">>
              \/ \E p \in wrong_person_patterns : contains(p, user_lower)
              \/ \E p \in not_interested_patterns : contains(p, user_lower)
        \/ \E p \in no_questions_patterns : contains(p, user_lower)
        \/ ending_count(llm_lower) >= MinEndingPhrases

\* ------------------------------------------------------------ optional values

\* Python's None for an Optional[...] result, and a present value
None == {}

\* a timestamp that is None
NoTime == -1

Some(x) == {x}

TheValue(opt) == CHOOSE x \in opt : TRUE

\* dict helpers: a dict is a function whose domain is the set of its keys
DictDel(d, k) == [x \in (DOMAIN d) \ {k} |-> d[x]]

DictPut(d, k, v) == [x \in (DOMAIN d) \cup {k} |-> IF x = k THEN v ELSE d[x]]

\* ------------------------------------------------------------------ bounds

\* longest history a session may hold in the model (appends are not offered beyond it)
MaxHistory == 3

\* longest user text of the dialogue-policy input space
MaxUserLen == 3

\* most detached background tasks in flight at once
MaxTasks == 1

\* most detached background tasks in flight at once when they are let race
MaxRacing == 2

\* ------------------------------------------------------- program constants

\* CONVERSATION_STATE_TTL = timedelta(hours=1), in seconds
CONVERSATION_STATE_TTL == 3600

\* the phone cache is cleared when older than 300 seconds
PHONE_CACHE_MAX_AGE == 300

\* ------------------------------------------------------------------- state

VARIABLES
    now,                   \* datetime.utcnow(), in seconds
    _conversation_states,  \* state_manager._conversation_states: call_sid -> state
    born,                  \* observer: call_sid -> time of its last create (-1: none, or cleared)
    _phone_cache,          \* webhook_service._phone_cache: raw number -> binding
    _cache_timestamp,      \* webhook_service._cache_timestamp
    calls,                 \* the Call rows: call_sid -> record
    tasks,                 \* detached _background_tasks coroutines in flight
    last,                  \* observer: the operation just performed and what it returned
    policy,                \* the dialogue-policy input under evaluation and its verdict
    apologies              \* observer: call_sid -> times the technical-difficulties message
                           \* was spoken since the call's last terminal status event

vars == <<now, _conversation_states, born, _phone_cache, _cache_timestamp,
          calls, tasks, last, policy, apologies>>

CallIds == {"CA_out", "CA_in"}

Roles == {"system", "user", "assistant"}

EmptyContext == [kind |-> "empty", contact_name |-> <<>>]

\* ------------------------------------------------- conversation state store

\* `datetime.utcnow() - created_at > CONVERSATION_STATE_TTL`
Expired(state, t) == t - state.created_at > CONVERSATION_STATE_TTL

\* the mutant of C6: the entry expires already at created_at + TTL
get_conversation_state_early(S, call_sid, t) ==
    IF call_sid \notin DOMAIN S
    THEN [state |-> None, store |-> S]
    ELSE IF t - S[call_sid].created_at >= CONVERSATION_STATE_TTL
         THEN [state |-> None, store |-> DictDel(S, call_sid)]
         ELSE [state |-> Some(S[call_sid]), store |-> S]

\* get_conversation_state: the state or None; an expired entry is deleted
get_conversation_state(S, call_sid, t) ==
    IF call_sid \notin DOMAIN S
    THEN [state |-> None, store |-> S]
    ELSE IF Expired(S[call_sid], t)
         THEN [state |-> None, store |-> DictDel(S, call_sid)]
         ELSE [state |-> Some(S[call_sid]), store |-> S]

\* create_conversation_state: a fresh state replaces whatever the key held.
\* updated_at is written here and on append and read nowhere: not modelled.
create_conversation_state(S, call_sid, direction, context, voice_agent_id, real_estate_agent_id, contact_id, t) ==
    DictPut(S, call_sid,
            [call_sid |-> call_sid,
             direction |-> direction,
             context |-> context,
             history |-> <<>>,
             voice_agent_id |-> voice_agent_id,
             real_estate_agent_id |-> real_estate_agent_id,
             contact_id |-> contact_id,
             created_at |-> t,
             turn_count |-> 0,
             fallback_mentioned |-> FALSE])

\* len([h for h in state["history"] if h["role"] == "user"])
UserTurns(history) == Cardinality({i \in 1..Len(history) : history[i].role = "user"})

\* the mutant of C5: turn_count counts every history entry
update_conversation_history_len(S, call_sid, role, content, t) ==
    LET got == get_conversation_state(S, call_sid, t)
    IN  IF got.state = None
        THEN [ok |-> FALSE, store |-> got.store]
        ELSE LET history == Append(TheValue(got.state).history,
                                   [role |-> role, content |-> content, timestamp |-> t])
             IN  [ok |-> TRUE,
                  store |-> [got.store EXCEPT ![call_sid].history = history,
                                              ![call_sid].turn_count = Len(history)]]

\* update_conversation_history: append one message and recompute turn_count.
\* The message's timestamp is datetime.utcnow(), kept in seconds.
update_conversation_history(S, call_sid, role, content, t) ==
    LET got == get_conversation_state(S, call_sid, t)
    IN  IF got.state = None
        THEN [ok |-> FALSE, store |-> got.store]
        ELSE LET history == Append(TheValue(got.state).history,
                                   [role |-> role, content |-> content, timestamp |-> t])
             IN  [ok |-> TRUE,
                  store |-> [got.store EXCEPT ![call_sid].history = history,
                                              ![call_sid].turn_count = UserTurns(history)]]

\* get_conversation_history: the history, or [] without a live state
get_conversation_history(S, call_sid, t) ==
    LET got == get_conversation_state(S, call_sid, t)
    IN  [history |-> IF got.state = None THEN <<>> ELSE TheValue(got.state).history,
         store |-> got.store]

\* clear_conversation_state
clear_conversation_state(S, call_sid) ==
    IF call_sid \in DOMAIN S
    THEN [ok |-> TRUE, store |-> DictDel(S, call_sid)]
    ELSE [ok |-> FALSE, store |-> S]

\* cleanup_expired_states: delete every expired entry, return how many
cleanup_expired_states(S, t) ==
    LET expired_sids == {c \in DOMAIN S : Expired(S[c], t)}
    IN  [count |-> Cardinality(expired_sids),
         store |-> [c \in (DOMAIN S) \ expired_sids |-> S[c]]]

\* ------------------------------------------------------------------ timing
\* Durations on the webhook's critical path are in tenths of a second.

\* asyncio.wait_for(handle_voice_webhook(form_dict), timeout=2.5)
CONTROLLER_TIMEOUT == 25

\* asyncio.wait_for(generate_initial_greeting(...), timeout=2.5)
GREETING_WAIT_TIMEOUT == 25

\* generate_initial_greeting(greeting_prompt, timeout=2.0)
GREETING_HTTP_TIMEOUT == 20

\* asyncio.wait_for(process_with_llm(...), timeout=3.5)
LLM_WAIT_TIMEOUT == 35

\* process_with_llm(..., timeout=4.0)
LLM_HTTP_TIMEOUT == 40

\* "Twilio expects response within 3 seconds"
PROVIDER_DEADLINE == 30

\* the timeouts in force while a branch of the voice handler awaits its LLM call,
\* innermost first: the HTTP call's own, the wait_for around it, the controller's
TimeoutChain(branch) ==
    CASE branch = "continuation" ->
             << LLM_HTTP_TIMEOUT, LLM_WAIT_TIMEOUT, CONTROLLER_TIMEOUT >>
      [] branch = "greeting" ->
             << GREETING_HTTP_TIMEOUT, GREETING_WAIT_TIMEOUT, CONTROLLER_TIMEOUT >>
      [] OTHER -> << CONTROLLER_TIMEOUT >>

\* ------------------------------------------------------------------- TwiML

voice_webhook_url == "/webhooks/twilio/voice"

\* response.say(text, voice="alice")
Say(text) == [verb |-> "Say", text |-> text, url |-> "", timeout |-> 0]

\* Gather(input="speech", action=voice_webhook_url, method="POST", timeout=5, ...)
GatherSpeech == [verb |-> "Gather", text |-> <<>>, url |-> voice_webhook_url, timeout |-> 5]

\* response.redirect(voice_webhook_url, method="POST")
Redirect == [verb |-> "Redirect", text |-> <<>>, url |-> voice_webhook_url, timeout |-> 0]

\* response.hangup()
Hangup == [verb |-> "Hangup", text |-> <<>>, url |-> "", timeout |-> 0]

\* _generate_error_twiml(message): "Sorry, {message}" and hangup
_generate_error_twiml(message) == << Say(<<"S","o","r","r","y",","," ">> \o message), Hangup >>

\* the mutant of C23: the continuing directive without its Gather
ContinueTwiml_no_gather(text) == << Say(text), Redirect >>

\* the "always gather speech" tail of handle_voice_webhook
ContinueTwiml(text) == << Say(text), GatherSpeech, Redirect >>

EndTwiml(text) == << Say(text), Hangup >>

\* ----------------------------------------------------- fallback replies

\* responses[turn_count % len(responses)]
Pick(responses, turn_count) == responses[(turn_count % Len(responses)) + 1]

\* _generate_natural_fallback(user_input, conversation_state, is_outbound);
\* conversation_state is an Optional state
_generate_natural_fallback(user_input, conversation_state, is_outbound) ==
    LET user_lower == lower(user_input)
        turn_count == IF conversation_state = None THEN 0
                      ELSE TheValue(conversation_state).turn_count
        has(w) == contains(w, user_lower)
    IN  IF has(<<"h","e","a","r">>) \/ has(<<"c","a","n"," ","y","o","u">>) THEN
            Pick(<< <<"Y","e","s",","," ","I"," ","c","a","n"," ","h","e","a","r"," ","y","o","u"," ","p","e","r","f","e","c","t","l","y","!"," ","H","o","w"," ","c","a","n"," ","I"," ","h","e","l","p"," ","y","o","u"," ","t","o","d","a","y","?">>,
                    <<"A","b","s","o","l","u","t","e","l","y",","," ","I"," ","c","a","n"," ","h","e","a","r"," ","y","o","u"," ","c","l","e","a","r","l","y","."," ","W","h","a","t"," ","c","a","n"," ","I"," ","d","o"," ","f","o","r"," ","y","o","u","?">>,
                    <<"Y","e","s",","," ","I","'","m"," ","l","i","s","t","e","n","i","n","g","."," ","H","o","w"," ","m","a","y"," ","I"," ","a","s","s","i","s","t"," ","y","o","u","?">>,
                    <<"I"," ","c","a","n"," ","h","e","a","r"," ","y","o","u"," ","j","u","s","t"," ","f","i","n","e","."," ","W","h","a","t"," ","w","o","u","l","d"," ","y","o","u"," ","l","i","k","e"," ","t","o"," ","k","n","o","w","?">> >>, turn_count)
        ELSE IF has(<<"h","e","l","l","o">>) \/ has(<<"h","i">>) \/ has(<<"h","e","y">>) THEN
            Pick(<< <<"H","e","l","l","o","!"," ","H","o","w"," ","c","a","n"," ","I"," ","h","e","l","p"," ","y","o","u"," ","t","o","d","a","y","?">>,
                    <<"H","i"," ","t","h","e","r","e","!"," ","W","h","a","t"," ","c","a","n"," ","I"," ","d","o"," ","f","o","r"," ","y","o","u","?">>,
                    <<"H","e","l","l","o","!"," ","I","'","m"," ","h","e","r","e"," ","t","o"," ","a","s","s","i","s","t"," ","y","o","u","."," ","W","h","a","t"," ","w","o","u","l","d"," ","y","o","u"," ","l","i","k","e"," ","t","o"," ","k","n","o","w","?">> >>, turn_count)
        ELSE IF has(<<"p","r","o","p","e","r","t","y">>) \/ has(<<"s","e","l","l">>) \/ has(<<"b","u","y">>) \/ has(<<"h","o","u","s","e">>)
                \/ has(<<"a","p","a","r","t","m","e","n","t">>) \/ has(<<"c","o","n","d","o">>) THEN
            IF is_outbound
            THEN Pick(<< <<"I","'","d"," ","b","e"," ","h","a","p","p","y"," ","t","o"," ","h","e","l","p"," ","y","o","u"," ","w","i","t","h"," ","y","o","u","r"," ","p","r","o","p","e","r","t","y","."," ","W","h","a","t"," ","w","o","u","l","d"," ","y","o","u"," ","l","i","k","e"," ","t","o"," ","k","n","o","w","?">>,
                         <<"L","e","t"," ","m","e"," ","h","e","l","p"," ","y","o","u"," ","w","i","t","h"," ","t","h","a","t","."," ","W","h","a","t"," ","q","u","e","s","t","i","o","n","s"," ","d","o"," ","y","o","u"," ","h","a","v","e"," ","a","b","o","u","t"," ","y","o","u","r"," ","p","r","o","p","e","r","t","y","?">>,
                         <<"I"," ","c","a","n"," ","a","s","s","i","s","t"," ","y","o","u"," ","w","i","t","h"," ","p","r","o","p","e","r","t","y"," ","i","n","f","o","r","m","a","t","i","o","n","."," ","W","h","a","t"," ","a","r","e"," ","y","o","u"," ","i","n","t","e","r","e","s","t","e","d"," ","i","n","?">> >>, turn_count)
            ELSE Pick(<< <<"I"," ","c","a","n"," ","h","e","l","p"," ","y","o","u"," ","f","i","n","d"," ","p","r","o","p","e","r","t","i","e","s","."," ","W","h","a","t"," ","a","r","e"," ","y","o","u"," ","l","o","o","k","i","n","g"," ","f","o","r","?">>,
                         <<"L","e","t"," ","m","e"," ","h","e","l","p"," ","y","o","u"," ","w","i","t","h"," ","p","r","o","p","e","r","t","y"," ","i","n","f","o","r","m","a","t","i","o","n","."," ","W","h","a","t"," ","t","y","p","e"," ","o","f"," ","p","r","o","p","e","r","t","y"," ","i","n","t","e","r","e","s","t","s"," ","y","o","u","?">>,
                         <<"I","'","d"," ","b","e"," ","h","a","p","p","y"," ","t","o"," ","a","s","s","i","s","t"," ","y","o","u","."," ","W","h","a","t"," ","k","i","n","d"," ","o","f"," ","p","r","o","p","e","r","t","y"," ","a","r","e"," ","y","o","u"," ","s","e","a","r","c","h","i","n","g"," ","f","o","r","?">>,
                         <<"I"," ","c","a","n"," ","h","e","l","p"," ","y","o","u"," ","f","i","n","d"," ","t","h","e"," ","p","e","r","f","e","c","t"," ","p","r","o","p","e","r","t","y","."," ","W","h","a","t"," ","a","r","e"," ","y","o","u","r"," ","r","e","q","u","i","r","e","m","e","n","t","s","?">> >>, turn_count)
        ELSE IF ~is_outbound /\ (has(<<"p","r","i","c","e">>) \/ has(<<"c","o","s","t">>) \/ has(<<"b","e","d","r","o","o","m">>)
                                 \/ has(<<"b","a","t","h","r","o","o","m">>) \/ has(<<"l","o","c","a","t","i","o","n">>) \/ has(<<"c","i","t","y">>)) THEN
            Pick(<< <<"I"," ","c","a","n"," ","h","e","l","p"," ","y","o","u"," ","f","i","n","d"," ","p","r","o","p","e","r","t","i","e","s"," ","b","a","s","e","d"," ","o","n"," ","y","o","u","r"," ","c","r","i","t","e","r","i","a","."," ","W","h","a","t"," ","a","r","e"," ","y","o","u"," ","l","o","o","k","i","n","g"," ","f","o","r","?">>,
                    <<"L","e","t"," ","m","e"," ","h","e","l","p"," ","y","o","u"," ","w","i","t","h"," ","t","h","a","t","."," ","W","h","a","t"," ","t","y","p","e"," ","o","f"," ","p","r","o","p","e","r","t","y"," ","a","n","d"," ","p","r","i","c","e"," ","r","a","n","g","e"," ","a","r","e"," ","y","o","u"," ","i","n","t","e","r","e","s","t","e","d"," ","i","n","?">>,
                    <<"I","'","d"," ","b","e"," ","h","a","p","p","y"," ","t","o"," ","a","s","s","i","s","t"," ","y","o","u","."," ","W","h","a","t"," ","a","r","e"," ","y","o","u","r"," ","r","e","q","u","i","r","e","m","e","n","t","s"," ","f","o","r"," ","t","h","e"," ","p","r","o","p","e","r","t","y","?">> >>, turn_count)
        ELSE IF has(<<"w","h","o">>) /\ (has(<<"i">>) \/ has(<<"y","o","u">>) \/ has(<<"a","m">>)) THEN
            IF is_outbound
            THEN Pick(<< <<"I","'","m"," ","c","a","l","l","i","n","g"," ","a","b","o","u","t"," ","y","o","u","r"," ","p","r","o","p","e","r","t","y","."," ","H","o","w"," ","c","a","n"," ","I"," ","h","e","l","p"," ","y","o","u"," ","t","o","d","a","y","?">>,
                         <<"I","'","m"," ","h","e","r","e"," ","t","o"," ","d","i","s","c","u","s","s"," ","y","o","u","r"," ","p","r","o","p","e","r","t","y","."," ","W","h","a","t"," ","w","o","u","l","d"," ","y","o","u"," ","l","i","k","e"," ","t","o"," ","k","n","o","w","?">>,
                         <<"I","'","m"," ","r","e","a","c","h","i","n","g"," ","o","u","t"," ","r","e","g","a","r","d","i","n","g"," ","y","o","u","r"," ","p","r","o","p","e","r","t","y","."," ","H","o","w"," ","m","a","y"," ","I"," ","a","s","s","i","s","t"," ","y","o","u","?">> >>, turn_count)
            ELSE Pick(<< <<"I","'","m"," ","h","e","r","e"," ","t","o"," ","h","e","l","p"," ","y","o","u"," ","f","i","n","d"," ","p","r","o","p","e","r","t","i","e","s","."," ","W","h","a","t"," ","a","r","e"," ","y","o","u"," ","l","o","o","k","i","n","g"," ","f","o","r","?">>,
                         <<"I"," ","c","a","n"," ","a","s","s","i","s","t"," ","y","o","u"," ","w","i","t","h"," ","p","r","o","p","e","r","t","y"," ","i","n","f","o","r","m","a","t","i","o","n","."," ","W","h","a","t"," ","d","o"," ","y","o","u"," ","n","e","e","d","?">> >>, turn_count)
        ELSE IF has(<<"u","n","d","e","r","s","t","a","n","d">>) \/ has(<<"c","o","m","m","u","n","i","c","a","t">>) \/ has(<<"t","a","l","k">>) THEN
            Pick(<< <<"I"," ","u","n","d","e","r","s","t","a","n","d"," ","y","o","u","."," ","H","o","w"," ","c","a","n"," ","I"," ","h","e","l","p"," ","y","o","u","?">>,
                    <<"I","'","m"," ","h","e","r","e"," ","a","n","d"," ","l","i","s","t","e","n","i","n","g","."," ","W","h","a","t"," ","c","a","n"," ","I"," ","d","o"," ","f","o","r"," ","y","o","u","?">>,
                    <<"Y","e","s",","," ","I","'","m"," ","f","o","l","l","o","w","i","n","g"," ","a","l","o","n","g","."," ","W","h","a","t"," ","w","o","u","l","d"," ","y","o","u"," ","l","i","k","e"," ","t","o"," ","k","n","o","w","?">> >>, turn_count)
        ELSE IF has(<<"e","n","d">>) \/ has(<<"b","y","e">>) \/ has(<<"g","o","o","d","b","y","e">>) \/ has(<<"h","a","n","g"," ","u","p">>) THEN
            Pick(<< <<"T","h","a","n","k"," ","y","o","u"," ","f","o","r"," ","y","o","u","r"," ","t","i","m","e","."," ","H","a","v","e"," ","a"," ","g","r","e","a","t"," ","d","a","y","!">>,
                    <<"T","h","a","n","k","s"," ","f","o","r"," ","c","a","l","l","i","n","g","."," ","T","a","k","e"," ","c","a","r","e","!">>,
                    <<"I"," ","a","p","p","r","e","c","i","a","t","e"," ","y","o","u","r"," ","t","i","m","e","."," ","G","o","o","d","b","y","e","!">> >>, turn_count)
        ELSE
            Pick(<< <<"I"," ","u","n","d","e","r","s","t","a","n","d","."," ","H","o","w"," ","c","a","n"," ","I"," ","h","e","l","p"," ","y","o","u"," ","w","i","t","h"," ","t","h","a","t","?">>,
                    <<"G","o","t"," ","i","t","."," ","W","h","a","t"," ","w","o","u","l","d"," ","y","o","u"," ","l","i","k","e"," ","t","o"," ","k","n","o","w","?">>,
                    <<"I"," ","s","e","e","."," ","L","e","t"," ","m","e"," ","h","e","l","p"," ","y","o","u"," ","w","i","t","h"," ","t","h","a","t",".">>,
                    <<"S","u","r","e","."," ","W","h","a","t"," ","c","a","n"," ","I"," ","d","o"," ","f","o","r"," ","y","o","u","?">>,
                    <<"O","k","a","y","."," ","H","o","w"," ","m","a","y"," ","I"," ","a","s","s","i","s","t"," ","y","o","u","?">>,
                    <<"I","'","m"," ","h","e","r","e"," ","t","o"," ","h","e","l","p","."," ","W","h","a","t"," ","d","o"," ","y","o","u"," ","n","e","e","d","?">> >>, turn_count)

\* the one-time message of the quota/rate-limit branch
TechnicalDifficulties ==
    <<"I","'","m"," ","h","a","v","i","n","g"," ","s","o","m","e"," ","t","e","c","h","n","i","c","a","l"," ","d","i","f","f","i","c","u","l","t","i","e","s"," ","r","i","g","h","t"," ","n","o","w",","," ","b","u","t"," ","I"," ","c","a","n"," ","s","t","i","l","l"," ","h","e","a","r"," ","y","o","u","."," ","L","e","t"," ","m","e"," ","t","r","y"," ","t","o"," ","h","e","l","p"," ","y","o","u"," ","w","i","t","h"," ","w","h","a","t"," ","I"," ","c","a","n",".">>

\* ------------------------------------------------------------- LLM client
\* An LLM outcome is what the Gemini endpoint would do if waited for:
\*   [kind |-> "text" | "quota" | "error", text |-> reply, delay |-> tenths of a second]
\* A result is [kind |-> "text" | "quota" | "error" | "timeout", text, at], at = when known.

\* process_with_llm: the reply, or ValueError; the httpx timeout raises ValueError too.
\* "quota" is a ValueError whose message holds "quota", "429" or "rate limit".
process_with_llm(outcome, timeout) ==
    IF outcome.delay >= timeout
    THEN [kind |-> "error", text |-> <<>>, at |-> timeout]
    ELSE IF outcome.kind = "text" /\ strip(outcome.text) = <<>>
    THEN [kind |-> "error", text |-> <<>>, at |-> outcome.delay]
    ELSE [kind |-> outcome.kind,
          text |-> IF outcome.kind = "text" THEN strip(outcome.text) ELSE <<>>,
          at |-> outcome.delay]

\* asyncio.wait_for(awaitable, timeout): the result, or TimeoutError at the deadline
wait_for(result, timeout) ==
    IF result.at >= timeout
    THEN [kind |-> "timeout", text |-> <<>>, at |-> timeout]
    ELSE result

GenericGreeting == <<"H","e","l","l","o",","," ","t","h","a","n","k"," ","y","o","u"," ","f","o","r"," ","c","a","l","l","i","n","g","."," ","H","o","w"," ","c","a","n"," ","I"," ","h","e","l","p"," ","y","o","u"," ","t","o","d","a","y","?">>

\* generate_initial_greeting: every exception of process_with_llm is caught here and
\* replaced by the generic greeting
generate_initial_greeting(outcome, timeout) ==
    LET response == process_with_llm(outcome, timeout)
    IN  IF response.kind = "text"
        THEN response
        ELSE [kind |-> "text", text |-> GenericGreeting, at |-> response.at]

\* ------------------------------------------------- phone/agent directory

\* the system's Twilio number as stored in PhoneNumber.twilio_phone_number
SystemNumber == <<"+","1","5","5","5","0","1","0","0">>

\* the other party's number
PartyNumber == <<"+","1","5","5","5","0","1","9","9">>

VoiceAgentName == <<"S","a","r","a","h">>

AgentName == <<"O","m","a","r"," ","F","a","r","o","o","q">>

CompanyName == <<"P","r","i","m","e"," ","R","e","a","l","t","y">>

ContactName == <<"A","l","i"," ","K","h","a","n">>

PropertyAddress == <<"1","2"," ","C","a","n","a","l"," ","R","o","a","d">>

\* the binding the joined query yields for the system's number
Binding == [voice_agent_id |-> "va1", voice_agent_name |-> VoiceAgentName,
            real_estate_agent_id |-> "rea1"]

\* what the PhoneNumber/VoiceAgent rows of the system's number may be
PhoneRows == {"absent", "phone_inactive", "agent_inactive", "active"}

\* str.replace(ch, "")
RemoveChars(s, drop) ==
    LET F[i \in 0..Len(s)] ==
            IF i = 0 THEN <<>>
            ELSE IF s[i] \in drop THEN F[i - 1] ELSE Append(F[i - 1], s[i])
    IN  F[Len(s)]

\* twilio_number.strip().replace(" ", "").replace("-", ""), then a leading "+"
NormalizeNumber(number) ==
    LET n == RemoveChars(strip(number), {" ", "-"})
    IN  IF startswith(n, <<"+">>) THEN n ELSE <<"+">> \o n

\* the mutant of C25: the age of the cache is not looked at
_get_cached_phone_data_any_age(cache, cache_timestamp, phone_number, t) ==
    [data |-> IF phone_number \in DOMAIN cache THEN Some(cache[phone_number]) ELSE None,
     cache |-> cache, timestamp |-> cache_timestamp]

\* _get_cached_phone_data: a cache older than 300 s is emptied and reports a miss
_get_cached_phone_data(cache, cache_timestamp, phone_number, t) ==
    IF t - cache_timestamp > PHONE_CACHE_MAX_AGE
    THEN [data |-> None, cache |-> <<>>, timestamp |-> t]
    ELSE [data |-> IF phone_number \in DOMAIN cache THEN Some(cache[phone_number]) ELSE None,
          cache |-> cache, timestamp |-> cache_timestamp]

\* _cache_phone_data
_cache_phone_data(cache, phone_number, data) == DictPut(cache, phone_number, data)

\* the mutant of C14: the agent's status is not checked
DirectoryQuery_any_status(rows, normalized_number) ==
    IF normalized_number = SystemNumber /\ rows \in {"active", "agent_inactive"}
    THEN [found |-> TRUE, binding |-> Some(Binding)]
    ELSE [found |-> FALSE, binding |-> None]

\* the joined PhoneNumber/VoiceAgent query and the two checks that follow it:
\* "found" with the binding, or "unavailable"
DirectoryQuery(rows, normalized_number) ==
    IF normalized_number = SystemNumber /\ rows = "active"
    THEN [found |-> TRUE, binding |-> Some(Binding)]
    ELSE [found |-> FALSE, binding |-> None]

Unavailable == _generate_error_twiml(<<"T","h","e"," ","v","o","i","c","e"," ","a","g","e","n","t"," ","i","s"," ","n","o","t"," ","a","v","a","i","l","a","b","l","e",".">>)

\* ------------------------------------------------------ the voice handler
\* A handler result: how handle_voice_webhook ended ("return", or "cancelled" when the
\* controller's wait_for cancelled it at an await), its TwiML, the store, the cache,
\* whether it scheduled _background_tasks, and when it ended (tenths of a second).

Result(kind, twiml, store, cache, timestamp, spawn, elapsed, branch) ==
    [kind |-> kind, twiml |-> twiml, store |-> store, cache |-> cache,
     timestamp |-> timestamp, spawn |-> spawn, elapsed |-> elapsed, branch |-> branch]

\* a wait_for timer fires once the loop's time has reached its deadline
Cancelled(at) == at >= CONTROLLER_TIMEOUT

\* get_initial_greeting_prompt(context, "outbound"): which of the two prompts is
\* rendered, and for whom
get_initial_greeting_prompt(contact_name) ==
    IF strip(contact_name) # <<>>
    THEN [kind |-> "named", contact_name |-> strip(contact_name)]
    ELSE [kind |-> "generic", contact_name |-> <<>>]

\* the fallback greeting of the `except` branches of the outbound greeting
FallbackGreeting(voice_agent_name, quick) ==
    IF quick.contact_name # <<>>
    THEN IF quick.agent_known
         THEN <<"H","e","l","l","o",","," ","t","h","i","s"," ","i","s"," ">> \o voice_agent_name \o <<" ","f","r","o","m"," ">> \o CompanyName \o <<"."," ">>
              \o <<"I","'","m"," ","c","a","l","l","i","n","g"," ","o","n"," ","b","e","h","a","l","f"," ","o","f"," ">> \o AgentName \o <<"."," ","A","m"," ","I"," ","c","o","n","t","a","c","t","i","n","g"," ">>
              \o quick.contact_name \o <<"?">>
         ELSE <<"H","e","l","l","o",","," ","t","h","i","s"," ","i","s"," ">> \o voice_agent_name \o <<"."," ","A","m"," ","I"," ","c","o","n","t","a","c","t","i","n","g"," ">>
              \o quick.contact_name \o <<"?"," ">> \o <<"I","'","m"," ","c","a","l","l","i","n","g"," ","a","b","o","u","t"," ","y","o","u","r"," ","p","r","o","p","e","r","t","y">>
              \o (IF quick.property_address # <<>>
                  THEN <<" ","a","t"," ">> \o quick.property_address ELSE <<>>) \o <<".">>
    ELSE <<"H","e","l","l","o",","," ","t","h","i","s"," ","i","s"," ">> \o voice_agent_name \o <<"."," ">>
         \o <<"A","m"," ","I"," ","s","p","e","a","k","i","n","g"," ","w","i","t","h"," ","t","h","e"," ","p","r","o","p","e","r","t","y"," ","o","w","n","e","r","?"," ","I","'","m"," ","c","a","l","l","i","n","g"," ","a","b","o","u","t"," ","y","o","u","r"," ","p","r","o","p","e","r","t","y",".">>

InboundGreeting(voice_agent_name) ==
    <<"H","e","l","l","o",","," ","t","h","i","s"," ","i","s"," ">> \o voice_agent_name \o <<"."," ","T","h","a","n","k"," ","y","o","u"," ","f","o","r"," ","c","a","l","l","i","n","g","."," ","H","o","w"," ","c","a","n"," ","I"," ","h","e","l","p"," ","y","o","u","?">>

\* the mutant of C21: a context that holds an error leaves the check-in without text
CheckIn_needs_context(voice_agent_name, context) ==
    IF context.kind = "error" THEN <<>>
    ELSE <<"H","e","l","l","o",","," ","a","r","e"," ","y","o","u"," ","t","h","e","r","e","?"," ","T","h","i","s"," ","i","s"," ">> \o voice_agent_name
         \o (IF context.contact_name # <<>>
             THEN <<","," ","c","a","l","l","i","n","g"," ","f","o","r"," ">> \o context.contact_name ELSE <<>>) \o <<".">>

\* the check-in said on silence when the call already has a state
CheckIn(voice_agent_name, context) ==
    <<"H","e","l","l","o",","," ","a","r","e"," ","y","o","u"," ","t","h","e","r","e","?"," ","T","h","i","s"," ","i","s"," ">> \o voice_agent_name
    \o (IF context.contact_name # <<>>
        THEN <<","," ","c","a","l","l","i","n","g"," ","f","o","r"," ">> \o context.contact_name ELSE <<>>) \o <<".">>

\* the mutant of C26: the prompt is built from whatever the context holds
system_prompt_always_built(context, is_outbound) ==
    IF is_outbound THEN "build_outbound_prompt" ELSE "build_inbound_prompt"

\* the system prompt of a continuation turn: built from the context when it is
\* non-empty and holds no error, else the minimal generic one
system_prompt(context, is_outbound) ==
    IF context.kind = "full"
    THEN IF is_outbound THEN "build_outbound_prompt" ELSE "build_inbound_prompt"
    ELSE "generic"

\* process_with_llm's `contents`: the user and assistant messages of the history
\* that have a content, then the current user input
contents(user_input, conversation_history) ==
    LET kept == SelectSeq(conversation_history,
                          LAMBDA msg : msg.role \in {"user", "assistant"} /\ msg.content # <<>>)
    IN  [i \in 1..Len(kept) |->
            [role |-> IF kept[i].role = "user" THEN "user" ELSE "model",
             text |-> kept[i].content]]
        \o << [role |-> "user", text |-> user_input] >>

\* the `if is_continuation:` branch: the user spoke
ContinuationTurn(call_sid, speech_result, is_outbound, binding, env, S, cache, ts, t0, t) ==
    LET got   == get_conversation_state(S, call_sid, t)
        S1    == IF got.state = None
                 THEN create_conversation_state(got.store, call_sid,
                          IF is_outbound THEN "outbound" ELSE "inbound", EmptyContext,
                          binding.voice_agent_id, binding.real_estate_agent_id, "None", t)
                 ELSE got.store
        S2    == update_conversation_history(S1, call_sid, "user", speech_result, t).store
        \* conversation_state is the dict the store holds: it sees the append
        conversation_state == Some(S2[call_sid])
        llm   == wait_for(process_with_llm(env.llm, LLM_HTTP_TIMEOUT), LLM_WAIT_TIMEOUT)
        t1    == t0 + llm.at
        quota_first == llm.kind = "quota" /\ ~S2[call_sid].fallback_mentioned
        reply == CASE llm.kind = "text" -> llm.text
                   [] quota_first -> TechnicalDifficulties
                   [] OTHER -> _generate_natural_fallback(speech_result, conversation_state,
                                                          is_outbound)
        S3    == IF quota_first THEN [S2 EXCEPT ![call_sid].fallback_mentioned = TRUE] ELSE S2
        S4    == update_conversation_history(S3, call_sid, "assistant", reply, t).store
        end   == _should_end_call(speech_result, reply, conversation_state, is_outbound)
        \* what the LLM was asked: history = get_conversation_history(call_sid)
        asked == [system_prompt |-> system_prompt(S2[call_sid].context, is_outbound),
                  contents |-> contents(speech_result, S2[call_sid].history)]
    IN  (IF Cancelled(t1)
         THEN Result("cancelled", <<>>, S2, cache, ts, FALSE, CONTROLLER_TIMEOUT, "continuation")
         ELSE IF end
         THEN Result("return", EndTwiml(reply), S4, cache, ts, FALSE, t1, "continuation")
         ELSE Result("return", ContinueTwiml(reply), S4, cache, ts, TRUE, t1, "continuation"))
        @@ asked

\* the mutant of C27: silence is greeted whether or not the call has a state
SilenceTurn_always_greets(call_sid, is_outbound, binding, env, S, cache, ts, t0, t) ==
    LET got == get_conversation_state(S, call_sid, t)
        \* outbound: the quick contact/agent lookup, then the greeting LLM call
        t1  == IF is_outbound THEN t0 + env.quick_delay ELSE t0
        g   == wait_for(generate_initial_greeting(env.llm, GREETING_HTTP_TIMEOUT),
                        GREETING_WAIT_TIMEOUT)
        t2  == IF is_outbound THEN t1 + g.at ELSE t0
        greeting == IF is_outbound
                    THEN IF g.kind = "text" THEN g.text
                         ELSE FallbackGreeting(binding.voice_agent_name, env.quick)
                    ELSE InboundGreeting(binding.voice_agent_name)
        S1  == create_conversation_state(got.store, call_sid,
                   IF is_outbound THEN "outbound" ELSE "inbound", EmptyContext,
                   binding.voice_agent_id, binding.real_estate_agent_id, "None", t)
        S2  == update_conversation_history(S1, call_sid, "assistant", greeting, t).store
    IN  IF Cancelled(t1) \/ Cancelled(t2)
        THEN Result("cancelled", <<>>, got.store, cache, ts, FALSE, CONTROLLER_TIMEOUT, "greeting")
        ELSE Result("return", ContinueTwiml(greeting), S2, cache, ts, TRUE, t2, "greeting")

\* the `else:` branch: no speech. A live state gets the check-in, none gets the greeting.
SilenceTurn(call_sid, is_outbound, binding, env, S, cache, ts, t0, t) ==
    LET got == get_conversation_state(S, call_sid, t)
        \* outbound: the quick contact/agent lookup, then the greeting LLM call
        t1  == IF is_outbound THEN t0 + env.quick_delay ELSE t0
        g   == wait_for(generate_initial_greeting(env.llm, GREETING_HTTP_TIMEOUT),
                        GREETING_WAIT_TIMEOUT)
        t2  == IF is_outbound THEN t1 + g.at ELSE t0
        greeting == IF is_outbound
                    THEN IF g.kind = "text" THEN g.text
                         ELSE FallbackGreeting(binding.voice_agent_name, env.quick)
                    ELSE InboundGreeting(binding.voice_agent_name)
        S1  == create_conversation_state(got.store, call_sid,
                   IF is_outbound THEN "outbound" ELSE "inbound", EmptyContext,
                   binding.voice_agent_id, binding.real_estate_agent_id, "None", t)
        S2  == update_conversation_history(S1, call_sid, "assistant", greeting, t).store
    IN  IF got.state # None
        THEN Result("return",
                    ContinueTwiml(CheckIn(binding.voice_agent_name, TheValue(got.state).context)),
                    got.store, cache, ts, TRUE, t0, "check_in")
        ELSE IF Cancelled(t1) \/ Cancelled(t2)
        THEN Result("cancelled", <<>>, got.store, cache, ts, FALSE, CONTROLLER_TIMEOUT, "greeting")
        ELSE Result("return", ContinueTwiml(greeting), S2, cache, ts, TRUE, t2, "greeting")

\* handle_voice_webhook(form_data). env: what the collaborators do during this event;
\* env.rows: the PhoneNumber/VoiceAgent rows of the system's number at that time.
handle_voice_webhook(form, env, S, cache, cache_timestamp, t) ==
    LET call_sid      == form.CallSid
        speech_result == form.SpeechResult
        is_outbound   == startswith(form.Direction, <<"o","u","t","b","o","u","n","d">>)
        twilio_number == IF is_outbound THEN form.From ELSE form.To
        cached == _get_cached_phone_data(cache, cache_timestamp, twilio_number, t)
        miss   == cached.data = None
        \* the database lookup runs on a cache miss only
        t0     == IF miss THEN env.db_delay ELSE 0
        query  == IF env.db_error THEN [found |-> FALSE, binding |-> None]
                  ELSE DirectoryQuery(env.rows, NormalizeNumber(twilio_number))
        binding == IF miss THEN query.binding ELSE cached.data
        cache1 == IF miss /\ query.found
                  THEN _cache_phone_data(cached.cache, twilio_number, TheValue(query.binding))
                  ELSE cached.cache
        is_continuation == speech_result # <<>> /\ strip(speech_result) # <<>>
    IN  IF env.fault
        THEN Result("return",
                    _generate_error_twiml(<<"a","n"," ","a","p","p","l","i","c","a","t","i","o","n"," ","e","r","r","o","r"," ","o","c","c","u","r","r","e","d","."," ","P","l","e","a","s","e"," ","t","r","y"," ","a","g","a","i","n"," ","l","a","t","e","r",".">>),
                    S, cache, cache_timestamp, FALSE, 0, "error")
        ELSE IF miss /\ Cancelled(t0)
        THEN Result("cancelled", <<>>, S, cached.cache, cached.timestamp, FALSE,
                    CONTROLLER_TIMEOUT, "lookup")
        ELSE IF binding = None
        THEN Result("return", Unavailable, S, cache1, cached.timestamp, FALSE, t0, "unavailable")
        ELSE IF is_continuation
        THEN ContinuationTurn(call_sid, speech_result, is_outbound, TheValue(binding), env,
                              S, cache1, cached.timestamp, t0, t)
        ELSE SilenceTurn(call_sid, is_outbound, TheValue(binding), env,
                         S, cache1, cached.timestamp, t0, t)

\* ----------------------------------------------------- the voice endpoint

HoldTwiml == << Say(<<"H","e","l","l","o",","," ","t","h","a","n","k"," ","y","o","u"," ","f","o","r"," ","c","a","l","l","i","n","g","."," ","P","l","e","a","s","e"," ","h","o","l","d",".">>), Redirect >>

ControllerErrorTwiml ==
    << Say(<<"H","e","l","l","o",","," ","t","h","a","n","k"," ","y","o","u"," ","f","o","r"," ","c","a","l","l","i","n","g","."," ","W","e","'","r","e"," ","e","x","p","e","r","i","e","n","c","i","n","g"," ","t","e","c","h","n","i","c","a","l"," ","d","i","f","f","i","c","u","l","t","i","e","s","."," ","P","l","e","a","s","e"," ","t","r","y"," ","a","g","a","i","n"," ","l","a","t","e","r",".">>),
       Hangup >>

\* the mutant of C2: the controller does not catch the handler's timeout
twilio_voice_webhook_no_timeout_catch(form_ok, result) ==
    IF ~form_ok THEN [status |-> 200, body |-> ControllerErrorTwiml]
    ELSE IF result.kind = "cancelled" THEN [status |-> 500, body |-> <<>>]
    ELSE [status |-> 200, body |-> result.twiml]

\* twilio_voice_webhook: the HTTP response of POST /webhooks/twilio/voice.
\* form_ok: request.form() parsed; result: how the handler ended.
twilio_voice_webhook(form_ok, result) ==
    IF ~form_ok THEN [status |-> 200, body |-> ControllerErrorTwiml]
    ELSE IF result.kind = "cancelled" THEN [status |-> 200, body |-> HoldTwiml]
    ELSE [status |-> 200, body |-> result.twiml]

\* ---------------------------------------------------- background tasks
\* A task is one detached _background_tasks coroutine:
\*   pc "start"   : about to run _update_call_record and _build_context_background
\*   pc "build"   : inside it, past the checks, awaiting the Context Builder
\* ref tells whether the state dict the coroutine holds is still the one in the store.

Task(call_sid, is_outbound, is_continuation) ==
    [call_sid |-> call_sid, is_outbound |-> is_outbound,
     is_continuation |-> is_continuation, pc |-> "start", ref |-> "none",
     contact_id |-> "None"]

RemoveAt(s, i) == SubSeq(s, 1, i - 1) \o SubSeq(s, i + 1, Len(s))

\* the state object the key held is gone from the store (deleted, or replaced by a new one)
Replaced(S, S2, c) ==
    c \in DOMAIN S /\ (c \notin DOMAIN S2 \/ S2[c].created_at # S[c].created_at)

\* a key holds a state object it did not hold before
Created(S, S2, c) ==
    c \in DOMAIN S2 /\ (c \notin DOMAIN S \/ S2[c].created_at # S[c].created_at)

\* coroutines that hold a replaced state object keep writing to the old one
Detach(ts, S, S2) ==
    [i \in 1..Len(ts) |->
        IF ts[i].pc = "build" /\ Replaced(S, S2, ts[i].call_sid)
        THEN [ts[i] EXCEPT !.ref = "stale"] ELSE ts[i]]

Born(b, S, S2, t) == [c \in CallIds |-> IF Created(S, S2, c) THEN t ELSE b[c]]

\* a Call row as it is inserted: the columns the handlers read or write.
\* transcript, transcript_json and user_pov_summary are the transcript fields.
NewCall(direction, status, contact_id) ==
    [direction |-> direction, status |-> status, contact_id |-> contact_id,
     duration_seconds |-> 0, answered_at |-> NoTime, ended_at |-> NoTime,
     recording_url |-> <<>>, recording_sid |-> <<>>,
     transcript |-> None, transcript_json |-> <<>>, user_pov_summary |-> None]

\* _update_call_record: a Call row is created for an inbound call that has none;
\* any exception is swallowed
_update_call_record(callrecs, call_sid, is_outbound, db_ok) ==
    IF db_ok /\ call_sid \notin DOMAIN callrecs /\ ~is_outbound
    THEN DictPut(callrecs, call_sid, NewCall("inbound", "in-progress", "None"))
    ELSE callrecs

\* the mutant of C24: twilio_call_sid is not unique, the second insert succeeds
InsertCall_not_unique(callrecs, call_sid, db_ok) ==
    IF db_ok
    THEN [calls |-> DictPut(callrecs, call_sid, NewCall("inbound", "in-progress", "None")),
          inserted |-> TRUE]
    ELSE [calls |-> callrecs, inserted |-> FALSE]

\* session.add(call); session.commit() of _update_call_record, reached after its
\* select found no row: twilio_call_sid is unique, so the commit raises when a row
\* of the call has been inserted meanwhile; the exception is swallowed
InsertCall(callrecs, call_sid, db_ok) ==
    IF db_ok /\ call_sid \notin DOMAIN callrecs
    THEN [calls |-> DictPut(callrecs, call_sid, NewCall("inbound", "in-progress", "None")),
          inserted |-> TRUE]
    ELSE [calls |-> callrecs, inserted |-> FALSE]

\* the Context Builder's result: the full context, or {"error": ...}; never empty
ContextBuilder(is_outbound, outcome) ==
    IF outcome = "error" THEN [kind |-> "error", contact_name |-> <<>>]
    ELSE IF is_outbound THEN [kind |-> "full", contact_name |-> ContactName]
    ELSE [kind |-> "full", contact_name |-> <<>>]

\* the mutant of C10: the "context already built" test is missing
ContextDecision_no_check(S, call_sid, t) ==
    LET got == get_conversation_state(S, call_sid, t)
    IN  [decision |-> IF got.state = None THEN "absent" ELSE "build",
         store |-> got.store]

\* the head of _build_context_background: no state -> return; context already
\* built -> return; otherwise build
ContextDecision(S, call_sid, t) ==
    LET got == get_conversation_state(S, call_sid, t)
    IN  [decision |-> IF got.state = None THEN "absent"
                      ELSE IF TheValue(got.state).context.kind # "empty" THEN "exists"
                      ELSE "build",
         store |-> got.store]

\* select(Call.contact_id) of an outbound call: the id, or "None"
CallContactId(callrecs, call_sid, db_ok) ==
    IF db_ok /\ call_sid \in DOMAIN callrecs THEN callrecs[call_sid].contact_id ELSE "None"

\* whether _build_context_background gets as far as calling a Context Builder
BuilderCalled(S, callrecs, call_sid, is_outbound, benv, t) ==
    /\ ContextDecision(S, call_sid, t).decision = "build"
    /\ is_outbound => CallContactId(callrecs, call_sid, benv.db_ok) # "None"

\* _build_context_background run from start to end with nothing interleaved:
\* the store it leaves. benv: [db_ok, builder] is what its collaborators do.
_build_context_background(S, callrecs, call_sid, is_outbound, benv, t) ==
    LET head == ContextDecision(S, call_sid, t)
        contact_id == IF is_outbound THEN CallContactId(callrecs, call_sid, benv.db_ok)
                      ELSE "None"
    IN  IF BuilderCalled(S, callrecs, call_sid, is_outbound, benv, t)
        THEN [head.store EXCEPT ![call_sid].context = ContextBuilder(is_outbound, benv.builder),
                                ![call_sid].contact_id = contact_id]
        ELSE head.store

\* ------------------------------------------------------ transcript text

NL == <<"\n">>

Digits == <<"0","1","2","3","4","5","6","7","8","9">>

TwoDigits(n) == << Digits[(n \div 10) + 1], Digits[(n % 10) + 1] >>

\* datetime.fromisoformat(timestamp).strftime("%H:%M:%S")
strftime(t) ==
    TwoDigits((t \div 3600) % 24) \o <<":">> \o TwoDigits((t \div 60) % 60) \o <<":">>
    \o TwoDigits(t % 60)

\* sep.join(parts)
RECURSIVE join(_, _)
join(sep, parts) ==
    IF parts = <<>> THEN <<>>
    ELSE IF Len(parts) = 1 THEN parts[1]
    ELSE parts[1] \o sep \o join(sep, Tail(parts))

\* the pieces of text between the positions of cut, which are dropped
Pieces(text, cut) ==
    LET n == Cardinality(cut)
        CutAt(k) == IF k = 0 THEN 0
                    ELSE IF k = n + 1 THEN Len(text) + 1
                    ELSE CHOOSE p \in cut : Cardinality({q \in cut : q < p}) = k - 1
    IN  [k \in 1..(n + 1) |-> SubSeq(text, CutAt(k - 1) + 1, CutAt(k) - 1)]

\* one line of _history_to_text: "[HH:MM:SS] Speaker: content", or without the
\* bracket when the message has no timestamp
TranscriptLine(item) ==
    LET speaker == IF item.role = "assistant" THEN <<"A","g","e","n","t">>
                   ELSE IF item.role = "user" THEN <<"U","s","e","r">> ELSE <<"S","y","s","t","e","m">>
        prefix  == IF item.timestamp # NoTime
                   THEN <<"[">> \o strftime(item.timestamp) \o <<"]"," ">> \o speaker \o <<":">>
                   ELSE speaker \o <<":">>
    IN  prefix \o <<" ">> \o item.content

\* _history_to_text: the messages with content, one per line; None without any
_history_to_text(history) ==
    LET spoken == SelectSeq(history, LAMBDA item : item.content # <<>>)
    IN  IF spoken = <<>> THEN None
        ELSE Some(join(NL, [i \in 1..Len(spoken) |-> TranscriptLine(spoken[i])]))

\* _parse_transcript_to_messages: re.split(r'[.!?]\s+|\n+', transcript.strip()), the
\* pieces stripped, those shorter than 3 dropped, the roles alternating from the
\* agent (outbound) or the user. Cutting at every newline and at every ".", "!" or "?"
\* that whitespace follows yields the same pieces once they are stripped and the
\* empty ones dropped.
_parse_transcript_to_messages(transcript, direction) ==
    LET text  == strip(transcript)
        cut   == {i \in 1..Len(text) :
                     \/ text[i] = "\n"
                     \/ /\ text[i] \in {".", "!", "?"}
                        /\ i < Len(text) /\ text[i + 1] \in Whitespace}
        parts == Pieces(text, cut)
        sentences == SelectSeq([i \in 1..Len(parts) |-> strip(parts[i])],
                               LAMBDA sentence : Len(sentence) >= 3)
        first == IF direction = "outbound" THEN "assistant" ELSE "user"
        other == IF direction = "outbound" THEN "user" ELSE "assistant"
    IN  [i \in 1..Len(sentences) |->
            [role |-> IF i % 2 = 1 THEN first ELSE other,
             content |-> sentences[i], timestamp |-> NoTime]]

\* " ".join(summary.strip().splitlines()[:2]).strip()
ClampSummary(summary) ==
    LET text  == strip(summary)
        lines == IF text = <<>> THEN <<>>
                 ELSE Pieces(text, {i \in 1..Len(text) : text[i] = "\n"})
    IN  strip(join(<<" ">>, SubSeq(lines, 1, IF Len(lines) < 2 THEN Len(lines) ELSE 2)))

SUMMARY_FALLBACK_CHARS == 180

\* the user messages with non-blank content
UserMessages(history) ==
    SelectSeq(history, LAMBDA m : m.role = "user" /\ strip(m.content) # <<>>)

\* the mutant of C12: the summary is requested whoever spoke
_generate_user_pov_summary_always(history, direction, llm) ==
    IF history = <<>>
    THEN [summary |-> None, requested |-> FALSE]
    ELSE [summary |-> IF llm.kind = "text" THEN Some(ClampSummary(llm.text)) ELSE None,
          requested |-> TRUE]

\* _generate_user_pov_summary: None without history or when the user never spoke;
\* else the LLM's summary clamped to two lines, or, when the LLM call raises,
\* "User intent: " and the last user message. requested: the LLM was called.
_generate_user_pov_summary(history, direction, llm) ==
    IF history = <<>> \/ UserMessages(history) = <<>>
    THEN [summary |-> None, requested |-> FALSE]
    ELSE IF llm.kind = "text"
    THEN [summary |-> Some(ClampSummary(llm.text)), requested |-> TRUE]
    ELSE LET said == SelectSeq(history, LAMBDA m : m.role = "user" /\ m.content # <<>>)
             last_user == said[Len(said)].content
         IN  [summary |-> Some(<<"U","s","e","r"," ","i","n","t","e","n","t",":"," ">> \o
                               SubSeq(last_user, 1,
                                      IF Len(last_user) < SUMMARY_FALLBACK_CHARS
                                      THEN Len(last_user) ELSE SUMMARY_FALLBACK_CHARS)),
              requested |-> TRUE]

\* ------------------------------------------------------- status handler

TerminalStatuses == {"completed", "failed", "busy", "no-answer", "canceled"}

\* int(call_duration) of a decimal string; None when int() raises
ParseInt(text) ==
    LET F[i \in 0..Len(text)] ==
            IF i = 0 THEN 0
            ELSE 10 * F[i - 1] + ((CHOOSE d \in 1..10 : Digits[d] = text[i]) - 1)
    IN  IF text # <<>> /\ \A i \in 1..Len(text) : \E d \in 1..10 : Digits[d] = text[i]
        THEN Some(F[Len(text)]) ELSE None

\* update_call_status: the row's status, end or answer time and duration, when the
\* row exists
update_call_status(callrecs, call_sid, status, duration, t) ==
    IF call_sid \in DOMAIN callrecs
    THEN LET call == callrecs[call_sid]
         IN  [callrecs EXCEPT ![call_sid] =
                 [call EXCEPT
                     !.status = status,
                     !.answered_at = IF status = "in-progress" /\ call.answered_at = NoTime
                                     THEN t ELSE @,
                     !.ended_at = IF status \in {"completed", "failed", "busy", "no-answer"}
                                  THEN t ELSE @,
                     !.duration_seconds = IF duration # None THEN TheValue(duration) ELSE @]]
    ELSE callrecs

\* save_transcript_by_twilio_sid: the three transcript fields are written to the row
\* of the call, when it exists
save_transcript_by_twilio_sid(callrecs, twilio_call_sid, transcript, transcript_json, user_pov_summary) ==
    IF twilio_call_sid \in DOMAIN callrecs
    THEN [callrecs EXCEPT ![twilio_call_sid].transcript = transcript,
                          ![twilio_call_sid].transcript_json = transcript_json,
                          ![twilio_call_sid].user_pov_summary = user_pov_summary]
    ELSE callrecs

\* _persist_conversation_history_to_db. penv: what its collaborators do (select_ok,
\* save_ok: the queries do not raise; summary: the LLM's answer). Every exception is
\* swallowed. requested: the LLM was asked for a summary.
_persist_conversation_history_to_db(callrecs, S, call_sid, penv, t) ==
    LET got  == get_conversation_history(S, call_sid, t)
        call == callrecs[call_sid]
        legacy == got.history = <<>> /\ call.transcript # None
                  /\ TheValue(call.transcript) # <<>>
        history == IF legacy
                   THEN _parse_transcript_to_messages(TheValue(call.transcript), call.direction)
                   ELSE got.history
        transcript_text == IF history # <<>> THEN _history_to_text(history)
                           ELSE call.transcript
        pov == IF history # <<>>
               THEN _generate_user_pov_summary(history, call.direction, penv.summary)
               ELSE [summary |-> None, requested |-> FALSE]
    IN  IF ~penv.select_ok \/ call_sid \notin DOMAIN callrecs
        THEN [calls |-> callrecs, store |-> got.store, requested |-> FALSE]
        ELSE [calls |-> IF penv.save_ok
                        THEN save_transcript_by_twilio_sid(callrecs, call_sid, transcript_text,
                                                           history, pov.summary)
                        ELSE callrecs,
              store |-> got.store, requested |-> pov.requested]

\* handle_status_webhook(form_data). senv: what the collaborators do (update_ok:
\* update_call_status does not raise). An exception of int() or of the update skips
\* the rest; nothing is raised to the caller.
handle_status_webhook(form, senv, callrecs, S, t) ==
    LET call_sid == form.CallSid
        duration == IF form.CallDuration # <<>> THEN ParseInt(form.CallDuration) ELSE None
        raised   == (form.CallDuration # <<>> /\ duration = None) \/ ~senv.update_ok
        updated  == update_call_status(callrecs, call_sid, form.CallStatus, duration, t)
        p        == _persist_conversation_history_to_db(updated, S, call_sid, senv, t)
    IN  IF raised
        THEN [calls |-> callrecs, store |-> S, persister |-> FALSE, requested |-> FALSE]
        ELSE IF form.CallStatus \in TerminalStatuses
        THEN [calls |-> p.calls, store |-> clear_conversation_state(p.store, call_sid).store,
              persister |-> TRUE, requested |-> p.requested]
        ELSE [calls |-> updated, store |-> S, persister |-> FALSE, requested |-> FALSE]

\* the mutant of C20: the endpoint lets a failure of request.form() out
twilio_status_webhook_no_catch(form_ok) ==
    IF form_ok THEN [status |-> 200, body |-> "ok"] ELSE [status |-> 500, body |-> "error"]

\* twilio_status_webhook and twilio_recording_webhook: the HTTP response. The handlers
\* raise nothing; a form that cannot be read is answered with {"status": "error"}.
twilio_status_webhook(form_ok) ==
    IF form_ok THEN [status |-> 200, body |-> "ok"] ELSE [status |-> 200, body |-> "error"]

\* save_recording: the row's recording fields, when the row exists
save_recording(callrecs, twilio_call_sid, recording_url, recording_sid) ==
    IF twilio_call_sid \in DOMAIN callrecs
    THEN [callrecs EXCEPT ![twilio_call_sid].recording_url = recording_url,
                          ![twilio_call_sid].recording_sid = recording_sid]
    ELSE callrecs

\* handle_recording_webhook(form_data): saves when both fields are there; an exception
\* of save_recording is swallowed
handle_recording_webhook(form, save_ok, callrecs) ==
    IF form.RecordingUrl # <<>> /\ form.RecordingSid # <<>> /\ save_ok
    THEN save_recording(callrecs, form.CallSid, form.RecordingUrl, form.RecordingSid)
    ELSE callrecs


\* ------------------------------------------------------- call initiation

\* str.isdigit() on one character of the numbers offered (ASCII)
isdigit(c) == \E i \in 1..Len(Digits) : Digits[i] = c

\* ''.join(c for c in phone_number if c.isdigit() or c == '+')
cleaned(phone_number) == SelectSeq(phone_number, LAMBDA c : isdigit(c) \/ c = "+")

\* the mutant of C19: the leading "0" of the local format is kept
normalize_phone_keep_zero(phone_number) ==
    LET c == cleaned(phone_number)
    IN  IF ~startswith(c, <<"+">>)
        THEN IF startswith(c, <<"9","2">>) THEN <<"+">> \o c
             ELSE IF startswith(c, <<"0">>) THEN <<"+","9","2">> \o c
             ELSE <<"+","9","2">> \o c
        ELSE IF startswith(c, <<"+","9","2","9","2">>) THEN <<"+","9","2">> \o SubSeq(c, 6, Len(c))
             ELSE c

\* the normalization of initiate_call ("ensure E.164 format")
normalize_phone(phone_number) ==
    LET c == cleaned(phone_number)
    IN  IF ~startswith(c, <<"+">>)
        THEN IF startswith(c, <<"9","2">>) THEN <<"+">> \o c
             ELSE IF startswith(c, <<"0">>) THEN <<"+","9","2">> \o SubSeq(c, 2, Len(c))
             ELSE <<"+","9","2">> \o c
        ELSE IF startswith(c, <<"+","9","2","9","2">>) THEN <<"+","9","2">> \o SubSeq(c, 6, Len(c))
             ELSE c

\* initiate_call up to the creation of the Call row: the number is normalized, then
\* validated; error: the ValueError raised ("" when none)
initiate_call(phone_number) ==
    LET normalized == normalize_phone(phone_number)
        digits_after_plus == SubSeq(normalized, 2, Len(normalized))
    IN  IF ~startswith(normalized, <<"+">>) \/ Len(normalized) < 8 \/ Len(normalized) > 16
        THEN [phone_number |-> normalized, error |-> "format"]
        \* "".isdigit() is False
        ELSE IF digits_after_plus = <<>> \/ \E i \in 1..Len(digits_after_plus) :
                                                ~isdigit(digits_after_plus[i])
        THEN [phone_number |-> normalized, error |-> "digits"]
        ELSE [phone_number |-> normalized, error |-> ""]
\* ------------------------------------------------------------ environment

\* the instants the clock is observed at: around the cache age limit and the state TTL
TimePoints == {0, CONVERSATION_STATE_TTL + 1}

\* what the provider posts for a call: CA_out was placed by the system, CA_in by a caller
Form(c, speech) ==
    [CallSid |-> c,
     From |-> IF c = "CA_out" THEN SystemNumber ELSE PartyNumber,
     To |-> IF c = "CA_out" THEN PartyNumber ELSE SystemNumber,
     Direction |-> IF c = "CA_out" THEN <<"o","u","t","b","o","u","n","d","-","a","p","i">> ELSE <<"i","n","b","o","u","n","d">>,
     SpeechResult |-> speech]

SpeechResults == { <<>>, <<"N","o",".">>, <<"h","e","l","l","o"," ","t","h","e","r","e">> }

LlmReplies == { <<"S","u","r","e",","," ","I"," ","c","a","n"," ","h","e","l","p"," ","w","i","t","h"," ","t","h","a","t",".">> }

\* what the LLM may return for the greeting prompt: the requested wording, or another
GreetingReplies ==
    { <<"H","e","l","l","o",","," ","t","h","i","s"," ","i","s"," ","S","a","r","a","h"," ","f","r","o","m"," ","P","r","i","m","e"," ","R","e","a","l","t","y","."," ","I","'","m"," ","c","a","l","l","i","n","g"," ","o","n"," ","b","e","h","a","l","f"," ","o","f"," ","O","m","a","r"," ","F","a","r","o","o","q","."," ","A","m"," ","I"," ","c","o","n","t","a","c","t","i","n","g"," ","A","l","i"," ","K","h","a","n","?">>,
      <<"H","e","l","l","o","!"," ","A","m"," ","I"," ","s","p","e","a","k","i","n","g"," ","w","i","t","h"," ","t","h","e"," ","p","r","o","p","e","r","t","y"," ","o","w","n","e","r","?">> }

\* durations of the awaits, in tenths of a second: the ones well inside every limit
Typical == [db |-> 1, quick |-> 2, llm |-> 5]

\* a directory lookup that outlasts the controller's limit
SlowDb == CONTROLLER_TIMEOUT + 5

\* a quick contact lookup that, with the greeting's HTTP timeout, outlasts that limit
SlowQuick == CONTROLLER_TIMEOUT - GREETING_HTTP_TIMEOUT + 1

\* an LLM reply that comes after the controller's limit but before the call's own timeout
LateLlm == CONTROLLER_TIMEOUT + 5

\* an LLM reply that does not come before the call's own timeouts
StuckLlm == LLM_WAIT_TIMEOUT + 3

NoLlm == [kind |-> "error", text |-> <<>>, delay |-> 0]

NoQuick == [contact_name |-> <<>>, agent_known |-> FALSE, property_address |-> <<>>]

NamedQuick == [contact_name |-> ContactName, agent_known |-> TRUE,
               property_address |-> PropertyAddress]

\* the directory lookup of a cache miss answers in time with an active binding
FoundDb == [db_error |-> FALSE, rows |-> "active", db_delay |-> Typical.db]

\* or it raises, is slow, or finds the number or its agent absent or inactive
FailedDbOutcomes ==
    {[db_error |-> TRUE, rows |-> "active", db_delay |-> Typical.db],
     [db_error |-> FALSE, rows |-> "active", db_delay |-> SlowDb]}
    \cup [db_error : {FALSE}, rows : PhoneRows \ {"active"}, db_delay : {Typical.db}]

\* a cache hit runs no lookup
NoDb == [db_error |-> FALSE, rows |-> "active", db_delay |-> 0]

\* the quick contact/agent lookup of an outbound greeting
QuickOutcomes == [quick : {NoQuick, NamedQuick}, quick_delay : {Typical.quick, SlowQuick}]

\* the LLM on a continuation turn: a reply in time, a reply after the controller's
\* limit, no reply before the call's own timeouts, an error, the quota error
TurnLlmOutcomes ==
    [kind : {"text"}, text : LlmReplies, delay : {Typical.llm}]
    \cup {[kind |-> "text", text |-> <<"S","u","r","e",","," ","I"," ","c","a","n"," ","h","e","l","p"," ","w","i","t","h"," ","t","h","a","t",".">>, delay |-> LateLlm],
          [kind |-> "text", text |-> <<"S","u","r","e",","," ","I"," ","c","a","n"," ","h","e","l","p"," ","w","i","t","h"," ","t","h","a","t",".">>, delay |-> StuckLlm],
          [kind |-> "error", text |-> <<>>, delay |-> Typical.llm],
          [kind |-> "quota", text |-> <<>>, delay |-> Typical.llm]}

\* the LLM on the greeting: a greeting in time, none before the HTTP timeout, an error
GreetingLlmOutcomes ==
    [kind : {"text"}, text : GreetingReplies, delay : {Typical.llm}]
    \cup {[kind |-> "text", text |-> <<"H","e","l","l","o","!"," ","A","m"," ","I"," ","s","p","e","a","k","i","n","g"," ","w","i","t","h"," ","t","h","e"," ","p","r","o","p","e","r","t","y"," ","o","w","n","e","r","?">>, delay |-> StuckLlm],
          [kind |-> "error", text |-> <<>>, delay |-> Typical.llm]}

Env(fault, d, q, l) ==
    [fault |-> fault, rows |-> d.rows, db_error |-> d.db_error, db_delay |-> d.db_delay,
     quick |-> q.quick, quick_delay |-> q.quick_delay, llm |-> l]

SkippedQuick == [quick |-> NoQuick, quick_delay |-> 0]

\* the collaborator behaviours that can matter to the event `form` in the current
\* state: what is never awaited is not varied
Envs(form) ==
    LET is_outbound == startswith(form.Direction, <<"o","u","t","b","o","u","n","d">>)
        miss == _get_cached_phone_data(_phone_cache, _cache_timestamp,
                    IF is_outbound THEN form.From ELSE form.To, now).data = None
        spoke == strip(form.SpeechResult) # <<>>
        live == get_conversation_state(_conversation_states, form.CallSid, now).state # None
        greets == ~spoke /\ ~live /\ is_outbound
    IN  { Env(FALSE, IF miss THEN FoundDb ELSE NoDb, q, l) :
             q \in IF greets THEN QuickOutcomes ELSE {SkippedQuick},
             l \in IF spoke THEN TurnLlmOutcomes
                   ELSE IF greets THEN GreetingLlmOutcomes ELSE {NoLlm} }
        \cup { Env(FALSE, d, SkippedQuick, NoLlm) : d \in IF miss THEN FailedDbOutcomes ELSE {} }
        \cup { Env(TRUE, NoDb, SkippedQuick, NoLlm) }

\* the collaborators all answer, and in time
CalmEnvs(form) ==
    { e \in Envs(form) :
         /\ ~e.fault /\ ~e.db_error /\ e.rows = "active"
         /\ e.db_delay <= Typical.db /\ e.quick_delay <= Typical.quick
         /\ e.llm.kind # "quota" /\ e.llm.delay <= Typical.llm
         /\ e.llm.kind = "error" => e.llm = NoLlm }

IdlePolicy == [user |-> <<>>, llm |-> <<>>, outbound |-> FALSE, result |-> "idle"]

\* -------------------------------------------------------------------- Init

Init ==
    /\ now = 0
    /\ _conversation_states = <<>>
    /\ born = [c \in CallIds |-> -1]
    /\ _phone_cache = <<>>
    /\ _cache_timestamp = 0
    \* an outbound call's row was created when the call was placed, with or without a
    \* contact; an inbound call has no row yet
    /\ calls \in {<<>>} \cup
           { [c \in {"CA_out"} |-> NewCall("outbound", "initiated", contact_id)] :
                 contact_id \in {"None", "ct1"} }
    /\ tasks = <<>>
    /\ last = [op |-> "init"]
    /\ policy = IdlePolicy
    /\ apologies = [c \in CallIds |-> 0]

\* ----------------------------------------------------------------- actions

\* the call a behaviour follows: the outbound call placed before it starts, or an
\* inbound call
Subject == IF "CA_out" \in DOMAIN calls THEN "CA_out" ELSE "CA_in"

\* the provider has reported the end of the call
Ended(c) == c \in DOMAIN calls /\ calls[c].status \in TerminalStatuses

\* time passes
Tick(t) ==
    /\ t > now
    /\ now' = t
    /\ last' = [op |-> "tick"]
    /\ UNCHANGED <<_conversation_states, born, _phone_cache, _cache_timestamp,
                   calls, tasks, policy, apologies>>

\* POST /webhooks/twilio/voice with a form that parses: the controller and the
\* handler, which test nothing about the call's status
VoiceRequest(c, speech, env) ==
    LET form == Form(c, speech)
        S    == _conversation_states
    IN  /\ c = Subject
        /\ \E result \in {handle_voice_webhook(form, env, S, _phone_cache,
                                                _cache_timestamp, now)} :
           /\ c \in DOMAIN result.store => Len(result.store[c].history) <= MaxHistory
           /\ _conversation_states' = result.store
           /\ born' = Born(born, S, result.store, now)
           /\ _phone_cache' = result.cache
           /\ _cache_timestamp' = result.timestamp
           /\ tasks' = LET ts == Detach(tasks, S, result.store)
                       IN  IF result.spawn
                           THEN Append(ts, Task(c, c = "CA_out", strip(speech) # <<>>))
                           ELSE ts
           /\ \E http \in {twilio_voice_webhook(TRUE, result)} :
                 /\ apologies' =
                        IF http.body # <<>> /\ http.body[1].text = TechnicalDifficulties
                        THEN [apologies EXCEPT ![c] = @ + 1] ELSE apologies
                 /\ last' = [op |-> "voice", call_sid |-> c, speech |-> speech,
                             had_state |-> get_conversation_state(S, c, now).state # None,
                             branch |-> result.branch,
                             rows |-> env.rows, db_delay |-> env.db_delay,
                             cached |-> _get_cached_phone_data(
                                            _phone_cache, _cache_timestamp,
                                            IF c = "CA_out" THEN form.From ELSE form.To,
                                            now).data # None,
                             contact_name |-> env.quick.contact_name,
                             llm_kind |-> env.llm.kind, llm_delay |-> env.llm.delay,
                             asked |-> IF result.branch = "continuation"
                                       THEN [system_prompt |-> result.system_prompt,
                                             contents |-> result.contents]
                                       ELSE [system_prompt |-> "none", contents |-> <<>>],
                             elapsed |-> result.elapsed,
                             status |-> http.status, twiml |-> http.body]
        /\ UNCHANGED <<now, calls, policy>>

\* a voice request of a call the provider has not reported as ended
VoiceEvent(c, speech, env) ==
    /\ ~Ended(c)
    /\ VoiceRequest(c, speech, env)

\* POST /webhooks/twilio/voice whose form cannot be read: the handler is never entered
VoiceEventUnreadable ==
    LET http == twilio_voice_webhook(FALSE, [kind |-> "none"])
    IN  /\ last' = [op |-> "voice_unreadable", status |-> http.status, twiml |-> http.body]
        /\ UNCHANGED <<now, _conversation_states, born, _phone_cache, _cache_timestamp,
                       calls, tasks, policy, apologies>>

\* a detached _background_tasks coroutine runs _update_call_record and, on a first
\* event, enters _build_context_background and runs to the await of the Context
\* Builder, or returns. db_ok: the database answers its queries.
BgStart(i, db_ok) ==
    LET task == tasks[i]
        S    == _conversation_states
        head == ContextDecision(S, task.call_sid, now)
        contact_id == IF task.is_outbound THEN CallContactId(calls, task.call_sid, db_ok)
                      ELSE "None"
        builds == BuilderCalled(S, calls, task.call_sid, task.is_outbound,
                                [db_ok |-> db_ok, builder |-> "full"], now)
        \* the insert of a task whose select ran earlier, or select and insert at once
        record == IF task.pc = "insert"
                  THEN InsertCall(calls, task.call_sid, db_ok)
                  ELSE LET rows == _update_call_record(calls, task.call_sid,
                                                       task.is_outbound, db_ok)
                       IN  [calls |-> rows, inserted |-> rows # calls]
        upsert == [call_sid |-> task.call_sid, attempted |-> task.pc = "insert",
                   inserted |-> record.inserted]
    IN  /\ i \in 1..Len(tasks)
        /\ task.pc \in {"start", "insert"}
        /\ calls' = record.calls
        /\ IF task.is_continuation
           THEN /\ tasks' = RemoveAt(tasks, i)
                /\ last' = [op |-> "bg_record", upsert |-> upsert]
                /\ UNCHANGED <<_conversation_states, born>>
           ELSE /\ _conversation_states' = head.store
                /\ born' = Born(born, S, head.store, now)
                /\ tasks' = LET ts == Detach(tasks, S, head.store)
                            IN  IF builds
                                THEN [ts EXCEPT ![i].pc = "build", ![i].ref = "live",
                                                ![i].contact_id = contact_id]
                                ELSE RemoveAt(ts, i)
                /\ last' = [op |-> "bg_check", decision |-> head.decision,
                            builder_called |-> builds, upsert |-> upsert]
        /\ UNCHANGED <<now, _phone_cache, _cache_timestamp, policy, apologies>>

\* the select of _update_call_record finds no row for an inbound call, and the
\* coroutine is suspended before its insert
BgRecordSelect(i) ==
    /\ i \in 1..Len(tasks)
    /\ tasks[i].pc = "start"
    /\ ~tasks[i].is_outbound
    /\ tasks[i].call_sid \notin DOMAIN calls
    /\ tasks' = [tasks EXCEPT ![i].pc = "insert"]
    /\ last' = [op |-> "bg_select"]
    /\ UNCHANGED <<now, _conversation_states, born, _phone_cache, _cache_timestamp,
                   calls, policy, apologies>>

\* the Context Builder returns and the task stores its result into the state it holds
BgContextStore(i, outcome) ==
    LET task == tasks[i]
        c    == task.call_sid
    IN  /\ i \in 1..Len(tasks)
        /\ task.pc = "build"
        /\ _conversation_states' =
               IF task.ref = "live"
               THEN [_conversation_states EXCEPT
                        ![c].context = ContextBuilder(task.is_outbound, outcome),
                        ![c].contact_id = task.contact_id]
               ELSE _conversation_states
        /\ tasks' = RemoveAt(tasks, i)
        /\ last' = [op |-> "bg_store", stored |-> task.ref = "live"]
        /\ UNCHANGED <<now, born, _phone_cache, _cache_timestamp, calls, policy, apologies>>

\* what the provider posts to the status endpoint
StatusForm(c, status, duration) ==
    [CallSid |-> c, CallStatus |-> status, CallDuration |-> duration]

\* the LLM's summary of a call, on three lines
SummaryReply == <<"W","a","n","t","s"," ","a"," ","v","i","e","w","i","n","g",".">> \o NL \o <<"W","i","l","l"," ","c","a","l","l"," ","b","a","c","k"," ","o","n"," ","M","o","n","d","a","y",".">> \o NL \o <<"T","h","a","n","k","s",".">>

\* the status handler's collaborators all answer
AllOk == [update_ok |-> TRUE, select_ok |-> TRUE, save_ok |-> TRUE,
          summary |-> [kind |-> "text", text |-> SummaryReply]]

\* or one of them raises: the status update, the persister's query, its save, the LLM
StatusEnvs ==
    {AllOk, [AllOk EXCEPT !.update_ok = FALSE], [AllOk EXCEPT !.select_ok = FALSE],
     [AllOk EXCEPT !.save_ok = FALSE],
     [AllOk EXCEPT !.summary = [kind |-> "error", text |-> <<>>]]}

\* POST /webhooks/twilio/status with a form that parses
StatusEvent(c, status, duration, senv) ==
    LET S    == _conversation_states
        live == c \in DOMAIN S /\ ~Expired(S[c], now)
    IN  /\ c = Subject
        /\ \E r \in {handle_status_webhook(StatusForm(c, status, duration), senv,
                                           calls, S, now)} :
           /\ calls' = r.calls
           /\ _conversation_states' = r.store
           /\ born' = IF r.persister /\ live THEN [born EXCEPT ![c] = -1] ELSE born
           /\ tasks' = Detach(tasks, S, r.store)
           /\ last' = [op |-> "status", call_sid |-> c, call_status |-> status,
                       assistant_only |-> /\ live
                                          /\ S[c].history # <<>>
                                          /\ UserMessages(S[c].history) = <<>>,
                       persister |-> r.persister, requested |-> r.requested,
                       status |-> twilio_status_webhook(TRUE).status]
        /\ apologies' = IF status \in TerminalStatuses
                         THEN [apologies EXCEPT ![c] = 0] ELSE apologies
        /\ UNCHANGED <<now, _phone_cache, _cache_timestamp, policy>>

Next ==
    \/ \E t \in TimePoints : Tick(t)
    \/ /\ Len(tasks) < MaxTasks
       /\ \E c \in CallIds, speech \in SpeechResults :
              \E env \in Envs(Form(c, speech)) : VoiceEvent(c, speech, env)
    \/ VoiceEventUnreadable
    \/ \E i \in 1..MaxTasks, db_ok \in BOOLEAN : BgStart(i, db_ok)
    \/ \E i \in 1..MaxTasks, outcome \in {"full", "error"} : BgContextStore(i, outcome)
    \/ \E c \in CallIds, senv \in {AllOk, [AllOk EXCEPT !.update_ok = FALSE]} :
           ~Ended(c) /\ StatusEvent(c, "completed", <<"4","2">>, senv)

Spec == Init /\ [][Next]_vars


\* ------------------------------------------------ the store used directly
\* The operations of state_manager.py called in any order, as its callers and
\* its tests may call them.

\* creation times, and the instants one TTL and just over one TTL after the first
StoreTimePoints == {0, CONVERSATION_STATE_TTL, CONVERSATION_STATE_TTL + 1}

StoreContents == { <<"h","i">> }

StoreIdle == <<_phone_cache, _cache_timestamp, calls, tasks, policy, apologies>>

\* the observer keeps what the last get returned; any other operation resets it
NoGet == [op |-> "other", call_sid |-> "", found |-> FALSE]

StoreTick(t) ==
    /\ t > now
    /\ now' = t
    /\ last' = NoGet
    /\ UNCHANGED <<_conversation_states, born>>
    /\ UNCHANGED StoreIdle

StoreCreate(c, direction) ==
    /\ _conversation_states' =
           create_conversation_state(_conversation_states, c, direction, EmptyContext,
                                     "va1", "rea1", "None", now)
    /\ born' = [born EXCEPT ![c] = now]
    /\ last' = NoGet
    /\ UNCHANGED now
    /\ UNCHANGED StoreIdle

StoreAppend(c, role, content) ==
    LET r == update_conversation_history(_conversation_states, c, role, content, now)
    IN  /\ c \in DOMAIN _conversation_states =>
               Len(_conversation_states[c].history) < MaxHistory
        /\ _conversation_states' = r.store
        /\ last' = NoGet
        /\ UNCHANGED <<now, born>>
        /\ UNCHANGED StoreIdle

StoreGet(c) ==
    LET r == get_conversation_state(_conversation_states, c, now)
    IN  /\ _conversation_states' = r.store
        /\ last' = [op |-> "get", call_sid |-> c, found |-> r.state # None]
        /\ UNCHANGED <<now, born>>
        /\ UNCHANGED StoreIdle

StoreClear(c) ==
    LET r == clear_conversation_state(_conversation_states, c)
    IN  /\ _conversation_states' = r.store
        /\ born' = [born EXCEPT ![c] = -1]
        /\ last' = NoGet
        /\ UNCHANGED now
        /\ UNCHANGED StoreIdle

StoreSweep ==
    LET r == cleanup_expired_states(_conversation_states, now)
    IN  /\ _conversation_states' = r.store
        /\ last' = NoGet
        /\ UNCHANGED <<now, born>>
        /\ UNCHANGED StoreIdle

StoreInit ==
    /\ now = 0
    /\ _conversation_states = <<>>
    /\ born = [c \in CallIds |-> -1]
    /\ _phone_cache = <<>>
    /\ _cache_timestamp = 0
    /\ calls = <<>>
    /\ tasks = <<>>
    /\ last = NoGet
    /\ policy = IdlePolicy
    /\ apologies = [c \in CallIds |-> 0]

StoreNext ==
    \/ \E t \in StoreTimePoints : StoreTick(t)
    \/ \E c \in CallIds : StoreCreate(c, IF c = "CA_out" THEN "outbound" ELSE "inbound")
    \* the roles the callers of the store pass: none appends a system message
    \/ \E c \in CallIds, role \in Roles \ {"system"}, content \in StoreContents :
           StoreAppend(c, role, content)
    \/ \E c \in CallIds : StoreGet(c)
    \/ \E c \in CallIds : StoreClear(c)
    \/ StoreSweep

SpecStore == StoreInit /\ [][StoreNext]_vars

\* -------------------------------------------- the dialogue policy by itself
\* _should_end_call applied to one input drawn at the start.

\* every text of at most MaxUserLen characters over the letters of "no", a period
\* and a blank
BareAlphabet == {"n", "o", "N", "O", ".", " "}

RECURSIVE TextsUpTo(_)
TextsUpTo(n) ==
    IF n = 0 THEN {<<>>}
    ELSE LET shorter == TextsUpTo(n - 1)
         IN  shorter \cup {Append(s, ch) : s \in shorter, ch \in BareAlphabet}

UserTexts ==
    TextsUpTo(MaxUserLen)
    \cup { <<"h","e","l","l","o"," ","t","h","e","r","e">>, <<"N","o"," ","t","h","a","n","k","s">>, <<"I","'","m"," ","n","o","t"," ","i","n","t","e","r","e","s","t","e","d">>, <<"W","r","o","n","g"," ","n","u","m","b","e","r">>, <<"t","h","a","t","'","s"," ","a","l","l">>,
           <<"n","o"," ","w","a","y">>, <<"Y","e","s",","," ","t","e","l","l"," ","m","e"," ","m","o","r","e">> }

\* model replies with no, one and several closing phrases
ModelTexts ==
    { <<"S","u","r","e",","," ","I"," ","c","a","n"," ","h","e","l","p"," ","w","i","t","h"," ","t","h","a","t",".">>,
      <<"G","o","o","d","b","y","e",".">>,
      <<"G","o","o","d","b","y","e",","," ","g","o","o","d","b","y","e",".">>,
      <<"S","o","r","r","y"," ","t","o"," ","b","o","t","h","e","r"," ","y","o","u","."," ","G","o","o","d","b","y","e",".">>,
      <<"I"," ","a","p","o","l","o","g","i","z","e"," ","f","o","r"," ","t","h","e"," ","i","n","c","o","n","v","e","n","i","e","n","c","e","."," ","H","a","v","e"," ","a"," ","g","o","o","d"," ","d","a","y",".">>,
      <<"S","O","R","R","Y"," ","F","O","R"," ","T","H","E"," ","I","N","C","O","N","V","E","N","I","E","N","C","E",","," ","H","A","V","E"," ","A"," ","G","R","E","A","T"," ","D","A","Y","!">>,
      <<>> }

PolicyInit ==
    /\ now = 0
    /\ _conversation_states = <<>>
    /\ born = [c \in CallIds |-> -1]
    /\ _phone_cache = <<>>
    /\ _cache_timestamp = 0
    /\ calls = <<>>
    /\ tasks = <<>>
    /\ last = [op |-> "init"]
    /\ policy \in [user : UserTexts, llm : ModelTexts, outbound : BOOLEAN,
                   result : {"pending"}]
    /\ apologies = [c \in CallIds |-> 0]

PolicyEvaluate ==
    /\ policy.result = "pending"
    /\ policy' = [policy EXCEPT !.result =
                     IF _should_end_call(policy.user, policy.llm, None, policy.outbound)
                     THEN "end" ELSE "continue"]
    /\ UNCHANGED <<now, _conversation_states, born, _phone_cache, _cache_timestamp,
                   calls, tasks, last, apologies>>

PolicyNext == PolicyEvaluate

SpecPolicy == PolicyInit /\ [][PolicyNext]_vars

\* ------------------------------------------- background tasks racing
\* The webhook machine with collaborators that answer in time, and with up to
\* MaxRacing detached coroutines in flight: each voice event that returns a
\* listen directive schedules one, whether or not the previous one is done.

RaceNext ==
    \/ /\ Len(tasks) < MaxRacing
       /\ \E c \in CallIds, speech \in SpeechResults :
              \E env \in CalmEnvs(Form(c, speech)) : VoiceEvent(c, speech, env)
    \/ \E i \in 1..MaxRacing : BgRecordSelect(i)
    \/ \E i \in 1..MaxRacing, db_ok \in BOOLEAN : BgStart(i, db_ok)
    \/ \E i \in 1..MaxRacing, outcome \in {"full", "error"} : BgContextStore(i, outcome)

SpecRace == Init /\ [][RaceNext]_vars

\* --------------------------------------- the status and recording endpoints
\* A call with collaborators of the voice handler that answer in time; the provider
\* posts status events, any of them more than once, progress before the end, and
\* recording events once a recording is complete: before or after the conversation.

\* a status that ends nothing, one that ends the call with an end time, one without
Statuses == {"in-progress", "completed", "canceled"}

\* CallDuration: absent, a number of seconds, not a number
Durations == { <<>>, <<"4","2">>, <<"4","m">> }

\* every status with a usual form and collaborators that answer; for `completed`
\* also the other forms, and the failures of each collaborator
StatusInputs ==
    [status : Statuses, duration : {<<"4","2">>}, senv : {AllOk}]
    \cup [status : {"completed"}, duration : Durations, senv : {AllOk}]
    \cup [status : {"completed"}, duration : {<<"4","2">>}, senv : StatusEnvs]

\* a recording event with both fields whose save succeeds or raises, and one without url
RecordingInputs ==
    {[url |-> <<"h","t","t","p","s",":","/","/","a","p","i",".","t","w","i","l","i","o",".","c","o","m","/","R","E","1">>, sid |-> <<"R","E","1">>, save_ok |-> TRUE],
     [url |-> <<"h","t","t","p","s",":","/","/","a","p","i",".","t","w","i","l","i","o",".","c","o","m","/","R","E","1">>, sid |-> <<"R","E","1">>, save_ok |-> FALSE],
     [url |-> <<>>, sid |-> <<"R","E","1">>, save_ok |-> TRUE]}

\* the row's transcript fields were written again from the transcript text: they hold
\* re-split messages. Status events are followed up to the first such rewrite.
Rewritten(c) ==
    /\ c \in DOMAIN calls
    /\ \E i \in 1..Len(calls[c].transcript_json) :
           calls[c].transcript_json[i].timestamp = NoTime

RecordingForm(c, url, sid) == [CallSid |-> c, RecordingUrl |-> url, RecordingSid |-> sid]

\* POST /webhooks/twilio/recording with a form that parses
RecordingEvent(c, url, sid, save_ok) ==
    /\ c = Subject
    /\ calls' = handle_recording_webhook(RecordingForm(c, url, sid), save_ok, calls)
    /\ last' = [op |-> "recording", call_sid |-> c, saved |-> calls' # calls,
                status |-> twilio_status_webhook(TRUE).status]
    /\ UNCHANGED <<now, _conversation_states, born, _phone_cache, _cache_timestamp,
                   tasks, policy, apologies>>

\* a POST to either endpoint whose form cannot be read: no handler is entered
EndpointUnreadable(endpoint) ==
    /\ last' = [op |-> endpoint, call_sid |-> "", unreadable |-> TRUE,
                status |-> twilio_status_webhook(FALSE).status]
    /\ UNCHANGED <<now, _conversation_states, born, _phone_cache, _cache_timestamp,
                   calls, tasks, policy, apologies>>

StatusNext ==
    \/ /\ Len(tasks) < MaxTasks
       /\ \E c \in CallIds, speech \in SpeechResults :
              \E env \in CalmEnvs(Form(c, speech)) : VoiceEvent(c, speech, env)
    \/ \E i \in 1..MaxTasks, db_ok \in BOOLEAN : BgStart(i, db_ok)
    \/ \E i \in 1..MaxTasks : BgContextStore(i, "full")
    \/ \E c \in CallIds, in \in StatusInputs :
           /\ in.status \notin TerminalStatuses => ~Ended(c)
           /\ ~Rewritten(c)
           /\ StatusEvent(c, in.status, in.duration, in.senv)
    \/ \E c \in CallIds, in \in RecordingInputs :
           /\ c \notin DOMAIN _conversation_states
           /\ RecordingEvent(c, in.url, in.sid, in.save_ok)
    \/ \E endpoint \in {"status_unreadable", "recording_unreadable"} :
           EndpointUnreadable(endpoint)

SpecStatus == Init /\ [][StatusNext]_vars

\* ------------------------------------------------ requests after the end
\* The voice endpoint is public and a request of the provider's (the redirect after a
\* listen that heard nothing, a retry) can reach it after the status event that
\* reported the end of the call: voice requests are delivered whatever the call's status.
LateNext ==
    \/ /\ Len(tasks) < MaxTasks
       /\ \E c \in CallIds, speech \in SpeechResults :
              \E env \in CalmEnvs(Form(c, speech)) : VoiceRequest(c, speech, env)
    \/ \E i \in 1..MaxTasks, db_ok \in BOOLEAN : BgStart(i, db_ok)
    \/ \E i \in 1..MaxTasks : BgContextStore(i, "full")
    \/ \E c \in CallIds, senv \in {AllOk, [AllOk EXCEPT !.update_ok = FALSE]} :
           /\ ~Rewritten(c)
           /\ StatusEvent(c, "completed", <<"4","2">>, senv)

SpecLate == Init /\ [][LateNext]_vars

\* ------------------------------------------ the directory behind the cache
\* The rows of the system's number change while calls go on: at each voice event
\* they are absent, inactive or active, whether or not the cache is asked first.

\* instants around the cache's age limit
DirectoryTimePoints == {PHONE_CACHE_MAX_AGE, PHONE_CACHE_MAX_AGE + 1}

\* the other collaborators answer in time; the directory lookup may be slow
DirectoryEnvs(form) ==
    { [e EXCEPT !.rows = rows, !.db_delay = d] :
         e \in CalmEnvs(form), rows \in PhoneRows, d \in {Typical.db, SlowDb} }

DirectoryNext ==
    \/ \E t \in DirectoryTimePoints : Tick(t)
    \/ /\ Len(tasks) < MaxTasks
       /\ \E c \in CallIds, speech \in SpeechResults :
              \E env \in DirectoryEnvs(Form(c, speech)) : VoiceEvent(c, speech, env)
    \/ \E i \in 1..MaxTasks : BgStart(i, TRUE)
    \/ \E i \in 1..MaxTasks : BgContextStore(i, "full")

SpecDirectory == Init /\ [][DirectoryNext]_vars

\* ------------------------------------------- call initiation by itself
\* The normalization and validation of initiate_call applied to one number drawn at
\* the start.

\* how the caller wrote the country and trunk prefix
PhonePrefixes ==
    { <<>>, <<"0">>, <<"+">>, <<"+","9","2">>, <<"9","2">>, <<"+","9","2","9","2">>, <<"+","9","2"," ","9","2">>, <<"(","0">>, <<"0","0">>, <<"+","1">>, <<"9","2","9","2">>, <<"0","9","2">> }

\* the rest of the number: too short, shortest, usual, with separators, longest,
\* too long, with a stray plus sign, with letters
PhoneBodies ==
    { <<>>, <<"3","0","0","1">>, <<"3","0","0","1","2">>, <<"3","0","0","1","2","3","4","5","6","7">>, <<"3","0","0"," ","1","2","3","-","4","5","6","7">>, <<"3","0","0","1","2","3","4","5","6","7","8","9","0">>,
      <<"3","0","0","1","2","3","4","5","6","7","8","9","0","1">>, <<"3","0","0","+","1","2","3","4">>, <<"3","0","0","x","1","2","3","4">> }

PhoneNumbers == { p \o b : p \in PhonePrefixes, b \in PhoneBodies }

PhoneInit ==
    /\ now = 0
    /\ _conversation_states = <<>>
    /\ born = [c \in CallIds |-> -1]
    /\ _phone_cache = <<>>
    /\ _cache_timestamp = 0
    /\ calls = <<>>
    /\ tasks = <<>>
    /\ \E p \in PhoneNumbers : last = [op |-> "dial", phone_number |-> p]
    /\ policy = IdlePolicy
    /\ apologies = [c \in CallIds |-> 0]

\* POST /calls/initiate up to the validation of the number
InitiateCall ==
    /\ last.op = "dial"
    /\ last' = [op |-> "initiate_call", original_phone |-> last.phone_number,
                phone_number |-> initiate_call(last.phone_number).phone_number,
                error |-> initiate_call(last.phone_number).error]
    /\ UNCHANGED <<now, _conversation_states, born, _phone_cache, _cache_timestamp,
                   calls, tasks, policy, apologies>>

SpecPhone == PhoneInit /\ [][InitiateCall]_vars

\* ------------------------------------------------ the phone cache by itself
\* _get_cached_phone_data and _cache_phone_data called in any order, as the handlers
\* of concurrent calls call them around their awaits, while time passes.

\* instants before, at and after the age limit, counted from the start and from a reset
CacheTimePoints ==
    {150, PHONE_CACHE_MAX_AGE, PHONE_CACHE_MAX_AGE + 1, 450, 2 * PHONE_CACHE_MAX_AGE + 2}

\* the numbers looked up: the system's, as the provider writes it, and another
CacheNumbers == {SystemNumber, <<"+","1"," ","5","5","5"," ","0","1","0","0">>}

CacheInit ==
    /\ now = 0
    /\ _conversation_states = <<>>
    /\ born = [c \in CallIds |-> -1]
    /\ _phone_cache = <<>>
    /\ _cache_timestamp = 0
    /\ calls = <<>>
    /\ tasks = <<>>
    /\ last = [op |-> "init"]
    /\ policy = IdlePolicy
    /\ apologies = [c \in CallIds |-> 0]

CacheIdle == <<_conversation_states, born, calls, tasks, policy, apologies>>

CacheTick(t) ==
    /\ t > now
    /\ now' = t
    /\ last' = [op |-> "tick"]
    /\ UNCHANGED <<_phone_cache, _cache_timestamp>>
    /\ UNCHANGED CacheIdle

\* a handler asks the cache. age: how old the cache was by its timestamp
CacheLookup(phone_number) ==
    LET r == _get_cached_phone_data(_phone_cache, _cache_timestamp, phone_number, now)
    IN  /\ _phone_cache' = r.cache
        /\ _cache_timestamp' = r.timestamp
        /\ last' = [op |-> "lookup", phone_number |-> phone_number, data |-> r.data,
                    age |-> now - _cache_timestamp]
        /\ UNCHANGED now
        /\ UNCHANGED CacheIdle

\* a handler whose lookup missed stores what the directory gave it; the observer
\* field cached_at notes when
CacheInsert(phone_number) ==
    /\ _phone_cache' = _cache_phone_data(_phone_cache, phone_number,
                                         [voice_agent_id |-> "va1", cached_at |-> now])
    /\ last' = [op |-> "insert", phone_number |-> phone_number]
    /\ UNCHANGED <<now, _cache_timestamp>>
    /\ UNCHANGED CacheIdle

SpecCache ==
    CacheInit /\ [][\/ \E t \in CacheTimePoints : CacheTick(t)
                    \/ \E n \in CacheNumbers : CacheLookup(n)
                    \/ \E n \in CacheNumbers : CacheInsert(n)]_vars

\* ------------------------------------------------------------ properties

\* the event just handled was a voice event whose number resolved to a binding and
\* that went down the given branch of the handler
VoiceOn(branch) == last.op = "voice" /\ last.branch = branch

Blank(text) == strip(text) = <<>>

\* speak, then listen for speech, then the fallback redirect
IsListenDirective(twiml) ==
    /\ Len(twiml) = 3
    /\ twiml[1].verb = "Say" /\ twiml[1].text # <<>>
    /\ twiml[2].verb = "Gather"
    /\ twiml[3].verb = "Redirect"

\* a directive the provider accepts: a speak element first, then nothing, a hangup,
\* a redirect, or listen and redirect
IsValidDirective(twiml) ==
    /\ Len(twiml) \in {2, 3}
    /\ twiml[1].verb = "Say" /\ twiml[1].text # <<>>
    /\ \/ Len(twiml) = 2 /\ twiml[2].verb \in {"Hangup", "Redirect"}
       \/ IsListenDirective(twiml)

\* C1: a voice event for a call id without a session, without speech, whose number
\* resolves to an active voice agent, is answered with the greeting directive, and
\* afterwards the store holds the session of that call id, its history being the greeting.
C1_FirstEventGreetsAndCreates ==
    (VoiceOn("greeting") /\ ~last.had_state /\ Blank(last.speech)) =>
        /\ IsListenDirective(last.twiml)
        /\ last.call_sid \in DOMAIN _conversation_states
        /\ _conversation_states[last.call_sid].history =
               << [role |-> "assistant", content |-> last.twiml[1].text,
                   timestamp |-> now] >>

\* the case of C1 handled as claimed: greeted, and the session is there
C1_Greeted ==
    /\ VoiceOn("greeting") /\ ~last.had_state /\ Blank(last.speech)
    /\ IsListenDirective(last.twiml)
    /\ last.call_sid \in DOMAIN _conversation_states

\* C2: every voice event is answered with HTTP 200 and a valid directive that starts
\* with a speak element, whatever failed while handling it.
C2_AlwaysValidResponse ==
    last.op \in {"voice", "voice_unreadable"} =>
        /\ last.status = 200
        /\ IsValidDirective(last.twiml)

\* C2 exercised: the handler was cancelled at the controller's limit while the LLM
\* was awaited, and the hold directive went out
C2_AnsweredAfterCancel ==
    /\ VoiceOn("continuation")
    /\ last.llm_delay >= CONTROLLER_TIMEOUT
    /\ last.status = 200
    /\ last.twiml = HoldTwiml

\* C3: on a continuation turn (live session, speech present) whose LLM call exceeds
\* its timeout, the endpoint answers within the provider's deadline, speaks the
\* fallback reply, and the history ends with the user turn followed by that reply.
C3_LlmTimeoutFallsBack ==
    (VoiceOn("continuation") /\ last.had_state /\ ~Blank(last.speech)
        /\ last.llm_delay >= LLM_WAIT_TIMEOUT) =>
        /\ last.elapsed < PROVIDER_DEADLINE
        /\ last.call_sid \in DOMAIN _conversation_states
        /\ LET state == _conversation_states[last.call_sid]
               history == state.history
               n == Len(history)
           IN  /\ n >= 2
               /\ history[n - 1] = [role |-> "user", content |-> last.speech,
                                     timestamp |-> now]
               /\ history[n].role = "assistant"
               /\ history[n].content = last.twiml[1].text
               /\ last.twiml[1].text =
                      _generate_natural_fallback(last.speech, Some(state),
                                                 last.call_sid = "CA_out")

\* C4: on the first voice event of an outbound call (no session, no speech) with a
\* contact name known at greeting time, the spoken greeting contains
\* "Am I contacting <name>?", whatever the greeting LLM call does.
C4_GreetingAsksForContact ==
    (VoiceOn("greeting") /\ ~last.had_state /\ Blank(last.speech)
        /\ last.call_sid = "CA_out" /\ last.contact_name # <<>>) =>
        contains(<<"A","m"," ","I"," ","c","o","n","t","a","c","t","i","n","g"," ">> \o last.contact_name \o <<"?">>, last.twiml[1].text)

\* the case of C4 handled as claimed: the LLM returned the requested wording in time
C4_AskedForContact ==
    /\ VoiceOn("greeting") /\ ~last.had_state /\ Blank(last.speech)
    /\ last.call_sid = "CA_out" /\ last.contact_name # <<>>
    /\ contains(<<"A","m"," ","I"," ","c","o","n","t","a","c","t","i","n","g"," ">> \o last.contact_name \o <<"?">>, last.twiml[1].text)

C6_LifetimeFromCreation ==
    (last.op = "get" /\ born[last.call_sid] >= 0) =>
        /\ last.found <=> (now - born[last.call_sid] <= CONVERSATION_STATE_TTL)
        /\ last.found => last.call_sid \in DOMAIN _conversation_states
        /\ ~last.found => last.call_sid \notin DOMAIN _conversation_states

\* C6 exercised: a get exactly one TTL after the create, of a session appended to
\* since, returns the session
C6_FoundAtTtl ==
    /\ last.op = "get" /\ last.found
    /\ born[last.call_sid] >= 0
    /\ now - born[last.call_sid] = CONVERSATION_STATE_TTL
    /\ Len(_conversation_states[last.call_sid].history) > 0

Evaluated == policy.result \in {"end", "continue"}

\* C7: for an outbound call the detector returns end whenever the trimmed, lower-cased
\* user text is "no" or "no.", for every model reply.
C7_OutboundBareNoEnds ==
    (Evaluated /\ policy.outbound /\ strip(lower(policy.user)) \in {<<"n","o">>, <<"n","o",".">>}) =>
        policy.result = "end"

\* C7 exercised: "no." written with capitals, and a reply without closing phrases
C7_BareNoWithPeriod ==
    /\ Evaluated /\ policy.outbound
    /\ policy.user = <<"N","O",".">>
    /\ ending_count(lower(policy.llm)) = 0
    /\ policy.result = "end"

\* C8 as stated: for an inbound call the detector returns continue when the user text
\* is "no.", for every model reply.
C8_InboundNoContinues ==
    (Evaluated /\ ~policy.outbound /\ strip(lower(policy.user)) = <<"n","o",".">>) =>
        policy.result = "continue"

\* C8: for an inbound call the detector returns continue when the user text is "no."
\* and the model reply contains fewer than two closing phrases.
C8_InboundNoContinuesUnlessClosing ==
    (Evaluated /\ ~policy.outbound /\ strip(lower(policy.user)) = <<"n","o",".">>
        /\ ending_count(lower(policy.llm)) < MinEndingPhrases) =>
        policy.result = "continue"

\* C8 exercised: inbound "no." with a reply holding one closing phrase continues
C8_InboundNoOneClosing ==
    /\ Evaluated /\ ~policy.outbound
    /\ strip(lower(policy.user)) = <<"n","o",".">>
    /\ ending_count(lower(policy.llm)) = 1
    /\ policy.result = "continue"

\* the rules of the detector that read the user text
UserSideRule(user_input, is_outbound) ==
    LET user_lower == lower(user_input)
    IN  \/ /\ is_outbound
           /\ \/ strip(user_lower) \in {<<"n","o">>, <<"n","o",".">>}
              \/ \E p \in wrong_person_patterns \cup not_interested_patterns :
                     contains(p, user_lower)
        \/ \E p \in no_questions_patterns : contains(p, user_lower)

\* the closing phrases found in a reply, letter case ignored
ClosingPhrasesIn(reply) == {ph \in ending_phrases : contains(ph, lower(reply))}

\* C9: the detector returns end whenever the model reply contains at least two distinct
\* closing phrases (case-insensitive), for every user text and either direction; with
\* a user text that matches no user-side rule and fewer than two closing phrases in
\* the reply it returns continue.
C9_TwoClosingPhrasesEnd ==
    Evaluated =>
        /\ Cardinality(ClosingPhrasesIn(policy.llm)) >= 2 => policy.result = "end"
        /\ (~UserSideRule(policy.user, policy.outbound)
               /\ Cardinality(ClosingPhrasesIn(policy.llm)) < 2) =>
               policy.result = "continue"

\* C9 exercised: one closing phrase said twice, after a user text no rule matches
C9_OnePhraseTwice ==
    /\ Evaluated
    /\ policy.llm = <<"G","o","o","d","b","y","e",","," ","g","o","o","d","b","y","e",".">>
    /\ policy.user = <<"h","e","l","l","o"," ","t","h","e","r","e">>
    /\ policy.result = "continue"

\* what the collaborators of the background context build may do
BuildEnvs == [db_ok : BOOLEAN, builder : {"full", "error"}]

\* C10: the background context build run on a session whose context is non-empty
\* leaves the store as it is and calls no Context Builder; and run twice in sequence
\* it leaves what one run leaves.
C10_ContextBuildIdempotent ==
    /\ (last.op = "bg_check" /\ last.decision = "exists") => ~last.builder_called
    /\ \A c \in DOMAIN _conversation_states, benv \in BuildEnvs :
           LET S == _conversation_states
               is_outbound == S[c].direction = "outbound"
               once == _build_context_background(S, calls, c, is_outbound, benv, now)
           IN  /\ (~Expired(S[c], now) /\ S[c].context # EmptyContext) =>
                      /\ once = S
                      /\ ~BuilderCalled(S, calls, c, is_outbound, benv, now)
               /\ \A again \in BuildEnvs :
                      (c \in DOMAIN once /\ once[c].context # EmptyContext) =>
                          _build_context_background(once, calls, c, is_outbound,
                                                    again, now) = once
               /\ _build_context_background(once, calls, c, is_outbound, benv, now) = once

\* C10 exercised: a background task found the context already built and returned
C10_SkippedBuild ==
    /\ last.op = "bg_check" /\ last.decision = "exists"
    /\ \E c \in DOMAIN _conversation_states :
           _conversation_states[c].context.kind = "full"

\* the session the key holds before and after the step is the same object
SameSession(c) ==
    /\ c \in DOMAIN _conversation_states
    /\ c \in DOMAIN _conversation_states'
    /\ ~Replaced(_conversation_states, _conversation_states', c)

\* C11: over every interleaving of voice events and background tasks, a session's
\* context, once non-empty, is never written again: the Context Builder's result is
\* stored at most once per session.
C11_ContextStoredOnce ==
    [][\A c \in CallIds :
           (SameSession(c) /\ _conversation_states[c].context # EmptyContext) =>
               _conversation_states'[c].context = _conversation_states[c].context]_vars

\* the case of C11: a task stored the Context Builder's result into a live session
C11_Stored ==
    /\ last.op = "bg_store" /\ last.stored
    /\ \E c \in DOMAIN _conversation_states : _conversation_states[c].context # EmptyContext

\* the event just handled was a status event with a terminal status
TerminalStatusHandled == last.op = "status" /\ last.call_status \in TerminalStatuses

\* C12: when a terminal status event is handled for a call whose session history holds
\* only assistant turns (no user turn with non-blank content), no summary is requested
\* from the LLM and the row's user-point-of-view summary is absent.
C12_NoSummaryWithoutUser ==
    (TerminalStatusHandled /\ last.assistant_only) =>
        /\ ~last.requested
        /\ last.call_sid \in DOMAIN calls => calls[last.call_sid].user_pov_summary = None

\* C12 exercised: the transcript of a call in which only the agent spoke was
\* persisted, without a summary
C12_AgentOnlyPersisted ==
    /\ TerminalStatusHandled /\ last.assistant_only /\ last.persister
    /\ last.call_sid \in DOMAIN calls
    /\ calls[last.call_sid].transcript # None
    /\ calls[last.call_sid].transcript_json # <<>>
    /\ calls[last.call_sid].user_pov_summary = None

\* C13: after a status event with a terminal status has been handled for call id c,
\* the Transcript Persister has been invoked for c and the store holds no session for c,
\* whatever the status update and the persistence step did.
C13_TerminalStatusEvicts ==
    TerminalStatusHandled =>
        /\ last.persister
        /\ last.call_sid \notin DOMAIN _conversation_states

\* the case of C13 handled as claimed: the persistence step failed, the session is gone
C13_EvictedDespiteFailure ==
    /\ TerminalStatusHandled /\ last.persister
    /\ last.call_sid \in DOMAIN calls
    /\ calls[last.call_sid].transcript = None
    /\ born[last.call_sid] = -1
    /\ last.call_sid \notin DOMAIN _conversation_states

\* the voice event just handled found the system's number without an active binding
\* in the directory
NotInService == last.op = "voice" /\ last.rows # "active"

\* the voice event just handled left the store without a session it did not have
CreatedNoSession ==
    ~last.had_state => last.call_sid \notin DOMAIN _conversation_states

\* C14 as stated: if at a voice event the system's number has no phone/agent record,
\* or the phone is inactive, or the agent is not active, the response is apology plus
\* hangup and no session is created, whatever the speech, the session state and the
\* contents of the phone/agent cache.
C14_InactiveIsUnavailable ==
    NotInService => (last.twiml = Unavailable /\ CreatedNoSession)

\* C14: the same when the cache holds no entry for the number that is at most 300 s
\* old, the response being apology plus hangup, or the hold directive when the
\* directory lookup outlasts the controller's limit.
C14_InactiveIsUnavailableOnMiss ==
    (NotInService /\ ~last.cached) =>
        /\ CreatedNoSession
        /\ IF last.db_delay >= CONTROLLER_TIMEOUT
           THEN last.twiml = HoldTwiml
           ELSE last.twiml = Unavailable

\* C14 exercised: the cache had been filled and has aged out, the agent has been
\* deactivated, and the caller who speaks is told that the agent is unavailable
C14_DeactivatedAfterCacheAged ==
    /\ NotInService /\ ~last.cached
    /\ now > PHONE_CACHE_MAX_AGE
    /\ last.rows = "agent_inactive"
    /\ ~Blank(last.speech)
    /\ last.twiml = Unavailable
    /\ last.call_sid \in DOMAIN _conversation_states

\* C15: over the continuation turns of one call, however often the LLM fails with a
\* quota or rate-limit error, the "technical difficulties" message is spoken at most
\* once; every later quota failure yields a generic fallback reply.
C15_ApologyAtMostOnce ==
    /\ \A c \in CallIds : apologies[c] <= 1
    /\ (VoiceOn("continuation") /\ last.llm_kind = "quota"
           /\ last.elapsed < CONTROLLER_TIMEOUT) =>
           \/ last.twiml[1].text = TechnicalDifficulties
           \/ last.twiml[1].text =
                  _generate_natural_fallback(last.speech,
                      Some(_conversation_states[last.call_sid]), last.call_sid = "CA_out")

\* the case of C15: the call's session has expired and been recreated between two
\* quota failures, and the message is spoken a second time
C15_ApologisedAgain ==
    /\ VoiceOn("continuation") /\ last.llm_kind = "quota"
    /\ apologies[last.call_sid] = 2
    /\ last.twiml[1].text = TechnicalDifficulties

\* C16: every timeout in force on the branch a voice event went down (the LLM call's
\* own, the wait around it, the controller's) is strictly below the provider's
\* deadline of 3 seconds and no larger than the timeout that encloses it.
C16_TimeoutsBelowDeadlineAndNested ==
    last.op = "voice" =>
        LET chain == TimeoutChain(last.branch)
        IN  \A i \in 1..Len(chain) :
                /\ chain[i] < PROVIDER_DEADLINE
                /\ i < Len(chain) => chain[i] <= chain[i + 1]

\* the case of C16: a continuation turn whose LLM call outlasts the inner timeouts
\* of 3.5 s and 4.0 s is ended by the controller's 2.5 s, not by them
C16_ControllerFiresFirst ==
    /\ VoiceOn("continuation")
    /\ last.llm_delay >= LLM_WAIT_TIMEOUT
    /\ last.elapsed = CONTROLLER_TIMEOUT
    /\ last.elapsed < TimeoutChain("continuation")[2]

\* the first sequence is an initial segment of the second
IsPrefix(s, t) == Len(s) <= Len(t) /\ SubSeq(t, 1, Len(s)) = s

\* C17: from a session's creation until the call's terminal status event is handled,
\* the history only grows by appending: in every step that is not the handling of a
\* terminal status event for the call, the session stays and its history before the
\* step is a prefix of its history after the step.
C17_HistoryAppendOnly ==
    [][\A c \in CallIds :
           (/\ c \in DOMAIN _conversation_states
            /\ ~(TerminalStatusHandled' /\ last'.call_sid = c)) =>
               /\ c \in DOMAIN _conversation_states'
               /\ IsPrefix(_conversation_states[c].history,
                           _conversation_states'[c].history)]_vars

\* the case of C17: a call that has a row from an earlier event's background task
\* speaks more than one hour after its session was created, finds no session, and
\* its history starts again with that turn
C17_HistoryRestarted ==
    /\ VoiceOn("continuation") /\ ~last.had_state
    /\ last.call_sid = "CA_in" /\ "CA_in" \in DOMAIN calls
    /\ now > CONVERSATION_STATE_TTL
    /\ last.call_sid \in DOMAIN _conversation_states
    /\ _conversation_states[last.call_sid].history[1].role = "user"

\* C18: over the status events of one call, the same terminal status event delivered
\* more than once included, the row's transcript text, structured turn list and
\* summary are written once: no step changes them once a transcript has been persisted.
C18_TranscriptWrittenOnce ==
    [][\A c \in DOMAIN calls :
           calls[c].transcript # None =>
               /\ c \in DOMAIN calls'
               /\ calls'[c].transcript = calls[c].transcript
               /\ calls'[c].transcript_json = calls[c].transcript_json
               /\ calls'[c].user_pov_summary = calls[c].user_pov_summary]_vars

\* the case of C18: a terminal status event found the session gone and the transcript
\* already persisted, and the row now holds turns re-split from that text
C18_RewrittenOnRedelivery ==
    /\ TerminalStatusHandled /\ last.persister
    /\ last.call_sid \in DOMAIN calls
    /\ last.call_sid \notin DOMAIN _conversation_states
    /\ Rewritten(last.call_sid)

\* the characters of a text that are decimal digits, in order
OnlyDigits(s) == SelectSeq(s, LAMBDA c : c \in {"0", "1", "2", "3", "4", "5", "6", "7", "8", "9"})

\* C19: call initiation maps a number without "+" that starts with "0" to "+92"
\* followed by the digits after the "0" ("03001234567" gives "+923001234567"), maps a
\* number that starts with "+9292" to "+92" followed by the digits after that doubled
\* prefix, and accepts only results made of "+" and then digits, 8 to 16 characters long.
C19_PhoneNormalized ==
    /\ normalize_phone(<<"0","3","0","0","1","2","3","4","5","6","7">>) = <<"+","9","2","3","0","0","1","2","3","4","5","6","7">>
    /\ normalize_phone(<<"+","9","2","9","2","3","0","0","1","2","3","4","5","6","7">>) = <<"+","9","2","3","0","0","1","2","3","4","5","6","7">>
    /\ last.op = "initiate_call" =>
           LET p == last.original_phone
               q == last.phone_number
           IN  /\ (startswith(p, <<"0">>) /\ ~contains(<<"+">>, p)) =>
                      q = <<"+","9","2">> \o OnlyDigits(Tail(p))
               /\ (startswith(p, <<"+","9","2","9","2">>) /\ ~contains(<<"+">>, Tail(p))) =>
                      q = <<"+","9","2">> \o OnlyDigits(SubSeq(p, 6, Len(p)))
               /\ last.error = "" =>
                      /\ Len(q) >= 8 /\ Len(q) <= 16
                      /\ q[1] = "+"
                      /\ OnlyDigits(Tail(q)) = Tail(q)

\* C19 exercised: a number in local format, written with separators, was accepted as
\* "+92" and its digits
C19_LocalNumberAccepted ==
    /\ last.op = "initiate_call"
    /\ last.original_phone = <<"0","3","0","0"," ","1","2","3","-","4","5","6","7">>
    /\ last.phone_number = <<"+","9","2","3","0","0","1","2","3","4","5","6","7">>
    /\ last.error = ""

\* C20: the status endpoint and the recording endpoint answer every event with HTTP
\* 200: when the row of the call does not exist, when the update or the transcript
\* persistence fails, and when the form cannot be read.
C20_StatusAndRecordingAlways200 ==
    last.op \in {"status", "recording", "status_unreadable", "recording_unreadable"} =>
        last.status = 200

\* C20 exercised: a terminal status event whose datastore update failed, so that
\* nothing was persisted, was answered with 200
C20_AnsweredDespiteFailedUpdate ==
    /\ TerminalStatusHandled /\ ~last.persister
    /\ last.call_sid \in DOMAIN _conversation_states
    /\ last.status = 200

\* the voice event just handled found a live session whose background work had
\* failed: the context holds the builder's error, or the inbound call has no row
AfterBackgroundFailure ==
    /\ last.op = "voice" /\ last.had_state
    /\ last.call_sid \in DOMAIN _conversation_states
    /\ \/ _conversation_states[last.call_sid].context.kind = "error"
       \/ last.call_sid = "CA_in" /\ "CA_in" \notin DOMAIN calls

\* C21: a failure of a background task (record upsert, context build) is never
\* surfaced to the caller: a later voice event of the call, its collaborators
\* answering, is answered with 200 and the check-in or the reply with listen, and
\* with a hangup only where the dialogue policy ends the call.
C21_BackgroundFailureNotSurfaced ==
    AfterBackgroundFailure =>
        /\ last.status = 200
        /\ last.branch \in {"check_in", "continuation"}
        /\ last.twiml[1].verb = "Say" /\ last.twiml[1].text # <<>>
        /\ \/ IsListenDirective(last.twiml)
           \/ /\ last.branch = "continuation"
              /\ last.twiml = EndTwiml(last.twiml[1].text)
              /\ _should_end_call(last.speech, last.twiml[1].text,
                                  Some(_conversation_states[last.call_sid]),
                                  last.call_sid = "CA_out")

\* C21 exercised: the Context Builder failed, the caller stays silent and is asked
\* whether they are there
C21_CheckInAfterFailedBuild ==
    /\ AfterBackgroundFailure /\ VoiceOn("check_in")
    /\ _conversation_states[last.call_sid].context.kind = "error"
    /\ IsListenDirective(last.twiml)

\* C22: the "wrong person" and "not interested in selling" rules end outbound calls
\* only: an inbound user text that holds one of their phrases and no "no further
\* questions" phrase (the both-direction list without the phrases of the outbound
\* rules), with fewer than two closing phrases in the reply, continues the call.
C22_InboundNotInterestedContinues ==
    (/\ Evaluated /\ ~policy.outbound
     /\ \E p \in wrong_person_patterns \cup not_interested_patterns :
            contains(p, lower(policy.user))
     /\ ~\E p \in no_questions_patterns \ not_interested_patterns :
             contains(p, lower(policy.user))
     /\ ending_count(lower(policy.llm)) < MinEndingPhrases) =>
        policy.result = "continue"

\* the case of C22 handled as claimed: inbound "Wrong number" continues
C22_InboundWrongNumberContinues ==
    /\ Evaluated /\ ~policy.outbound
    /\ policy.user = <<"W","r","o","n","g"," ","n","u","m","b","e","r">>
    /\ ending_count(lower(policy.llm)) = 0
    /\ policy.result = "continue"

\* speak, then hang up
IsEndShape(twiml) ==
    /\ Len(twiml) = 2
    /\ twiml[1].verb = "Say" /\ twiml[1].text # <<>>
    /\ twiml[2] = Hangup

\* speak, then listen for speech for 5 s with the voice endpoint as action, then
\* redirect to the voice endpoint
IsContinueShape(twiml) ==
    /\ Len(twiml) = 3
    /\ twiml[1].verb = "Say" /\ twiml[1].text # <<>>
    /\ twiml[2].verb = "Gather" /\ twiml[2].timeout = 5
    /\ twiml[2].url = "/webhooks/twilio/voice"
    /\ twiml[3].verb = "Redirect" /\ twiml[3].url = "/webhooks/twilio/voice"

\* C23 as stated: every directive returned for a voice event is speak plus hangup, or
\* speak plus listen (5 s, action the voice endpoint) plus redirect to the voice endpoint.
C23_TwoShapes ==
    last.op \in {"voice", "voice_unreadable"} =>
        (IsEndShape(last.twiml) \/ IsContinueShape(last.twiml))

\* C23: every directive returned for a voice event has one of these two shapes, or,
\* exactly when the handler was cancelled at the controller's limit of 2.5 s, is the
\* hold directive: speak followed by redirect to the voice endpoint, without listen.
\* No directive holds both hangup and listen.
C23_TwoShapesOrHold ==
    last.op \in {"voice", "voice_unreadable"} =>
        /\ IF last.op = "voice" /\ last.elapsed >= CONTROLLER_TIMEOUT
           THEN /\ Len(last.twiml) = 2
                /\ last.twiml[1].verb = "Say" /\ last.twiml[1].text # <<>>
                /\ last.twiml[2].verb = "Redirect"
                /\ last.twiml[2].url = "/webhooks/twilio/voice"
           ELSE IsEndShape(last.twiml) \/ IsContinueShape(last.twiml)
        /\ ~\E i, j \in 1..Len(last.twiml) :
               last.twiml[i].verb = "Hangup" /\ last.twiml[j].verb = "Gather"

\* C23 exercised: the greeting of an outbound call outlasted the controller's limit
\* and the caller was put on hold
C23_HoldOnSlowGreeting ==
    /\ VoiceOn("greeting") /\ last.call_sid = "CA_out"
    /\ last.elapsed >= CONTROLLER_TIMEOUT
    /\ last.twiml = HoldTwiml

\* C24: the background upsert creates a row only for an inbound call that has none,
\* never for an outbound call, and over every interleaving of the tasks of a call a
\* row is inserted at most once per call id.
C24_RecordCreatedOnceInboundOnly ==
    [][/\ \A db_ok \in BOOLEAN : _update_call_record(<<>>, "CA_out", TRUE, db_ok) = <<>>
       /\ \A c \in CallIds :
              (c \in DOMAIN calls' /\ c \notin DOMAIN calls) => c = "CA_in"
       /\ (last'.op \in {"bg_record", "bg_check"} /\ last'.upsert.inserted) =>
              /\ last'.upsert.call_sid = "CA_in"
              /\ "CA_in" \notin DOMAIN calls
              /\ "CA_in" \in DOMAIN calls']_vars

\* C24 exercised: two tasks of an inbound call both found no row, one inserted it,
\* and the insert of the other was rejected
C24_SecondInsertRejected ==
    /\ last.op \in {"bg_record", "bg_check"}
    /\ last.upsert.attempted /\ ~last.upsert.inserted
    /\ last.upsert.call_sid = "CA_in"
    /\ "CA_in" \in DOMAIN calls

\* C25: a cache hit never returns a binding that was cached more than 300 s earlier;
\* a lookup made more than 300 s after the cache timestamp empties the whole cache,
\* resets the timestamp and reports a miss, in every order of lookups and inserts.
C25_NoHitOlderThanMaxAge ==
    last.op = "lookup" =>
        /\ last.data # None => now - TheValue(last.data).cached_at <= PHONE_CACHE_MAX_AGE
        /\ last.age > PHONE_CACHE_MAX_AGE =>
               /\ last.data = None
               /\ _phone_cache = <<>>
               /\ _cache_timestamp = now

\* C25 exercised: the cache, reset by the lookup at 301 s, is 301 s old at 602 s and
\* the lookup made then empties it again and reports a miss
C25_EmptiedAfterMaxAge ==
    /\ last.op = "lookup" /\ last.data = None
    /\ last.age = PHONE_CACHE_MAX_AGE + 1
    /\ now = 2 * PHONE_CACHE_MAX_AGE + 2
    /\ _phone_cache = <<>> /\ _cache_timestamp = now

\* C26: a continuation turn handled while the session's context is empty or holds an
\* error result is asked of the model with the minimal generic system prompt and is
\* answered, its collaborators answering, with a spoken reply and listen, or with the
\* hangup the dialogue policy decides; the missing context makes no turn fail.
C26_MissingContextTolerated ==
    (/\ VoiceOn("continuation")
     /\ last.call_sid \in DOMAIN _conversation_states
     /\ _conversation_states[last.call_sid].context.kind \in {"empty", "error"}) =>
        /\ last.asked.system_prompt = "generic"
        /\ last.status = 200
        /\ last.twiml[1].verb = "Say" /\ last.twiml[1].text # <<>>
        /\ \/ IsListenDirective(last.twiml)
           \/ /\ last.twiml = EndTwiml(last.twiml[1].text)
              /\ _should_end_call(last.speech, last.twiml[1].text,
                                  Some(_conversation_states[last.call_sid]),
                                  last.call_sid = "CA_out")

\* C26 exercised: the caller speaks before the background build has stored anything
\* and gets the model's reply with listen
C26_RepliedBeforeContextBuilt ==
    /\ VoiceOn("continuation") /\ last.had_state
    /\ tasks # <<>>
    /\ _conversation_states[last.call_sid].context.kind = "empty"
    /\ last.llm_kind = "text"
    /\ last.asked.system_prompt = "generic"
    /\ IsListenDirective(last.twiml)

\* C27: a voice event without speech for a call that has a live session is never
\* answered with the greeting; when the handler reaches the speech test it is answered
\* with the check-in and listen; the session stays the one it was (same creation time,
\* nothing created or replaced) and its history is left as it was.
C27_SilenceOnLiveSessionChecksIn ==
    [][(/\ last'.op = "voice" /\ Blank(last'.speech) /\ last'.had_state) =>
          LET c == last'.call_sid
          IN  /\ last'.branch # "greeting"
              /\ last'.branch \notin {"error", "lookup", "unavailable"} =>
                     /\ last'.branch = "check_in"
                     /\ last'.status = 200
                     /\ last'.twiml = ContinueTwiml(CheckIn(VoiceAgentName,
                                            _conversation_states[c].context))
              /\ c \in DOMAIN _conversation_states /\ c \in DOMAIN _conversation_states'
              /\ _conversation_states'[c].created_at = _conversation_states[c].created_at
              /\ _conversation_states'[c].history = _conversation_states[c].history
              /\ born' = born]_vars

\* C27 exercised: a silent event on a session that holds the greeting and a full
\* exchange was answered with the check-in
C27_CheckInKeepsHistory ==
    /\ VoiceOn("check_in") /\ last.had_state /\ Blank(last.speech)
    /\ Len(_conversation_states[last.call_sid].history) >= 3
    /\ last.twiml[1].text = CheckIn(VoiceAgentName, _conversation_states[last.call_sid].context)

\* C28: on a continuation turn the turn sequence sent to the model is the session's
\* earlier user and assistant turns in order followed by the current user utterance
\* once.
C28_UtteranceSentOnce ==
    [][(last'.op = "voice" /\ last'.branch = "continuation") =>
          LET c == last'.call_sid
              earlier == IF last'.had_state THEN _conversation_states[c].history ELSE <<>>
          IN  last'.asked.contents = contents(last'.speech, earlier)]_vars

\* C28 exercised: the sequence sent to the model ends with the current utterance twice,
\* once from the history it was appended to and once as the user input
C28_UtteranceSentTwice ==
    /\ VoiceOn("continuation") /\ last.had_state
    /\ LET sent == last.asked.contents
           n == Len(sent)
       IN  /\ n >= 3
           /\ sent[n] = [role |-> "user", text |-> last.speech]
           /\ sent[n - 1] = sent[n]
           /\ sent[n - 2].role = "model"

\* C29: the text spoken in the response of a voice event that ended in the greeting,
\* the continuation or the check-in branch is the content of the assistant turn the
\* session's history ends with.
C29_SpokenTextRecorded ==
    (/\ last.op = "voice"
     /\ last.branch \in {"greeting", "continuation", "check_in"}
     /\ last.twiml # HoldTwiml
     /\ last.call_sid \in DOMAIN _conversation_states) =>
        LET history == _conversation_states[last.call_sid].history
        IN  /\ history # <<>>
            /\ history[Len(history)].role = "assistant"
            /\ history[Len(history)].content = last.twiml[1].text

\* the greeting, the model's reply and the fallback reply are recorded
C29_RepliesRecorded ==
    (/\ last.op = "voice"
     /\ last.branch \in {"greeting", "continuation"}
     /\ last.twiml # HoldTwiml
     /\ last.call_sid \in DOMAIN _conversation_states) =>
        LET history == _conversation_states[last.call_sid].history
        IN  /\ history # <<>>
            /\ history[Len(history)].role = "assistant"
            /\ history[Len(history)].content = last.twiml[1].text

\* C29 exercised: the check-in was spoken and no turn of the session's history holds it
C29_CheckInNotRecorded ==
    /\ VoiceOn("check_in")
    /\ last.twiml[1].text = CheckIn(VoiceAgentName, _conversation_states[last.call_sid].context)
    /\ \A i \in DOMAIN _conversation_states[last.call_sid].history :
          _conversation_states[last.call_sid].history[i].content # last.twiml[1].text

\* C30: once a status event with a terminal status has been handled for a call id
\* (the event just handled, or one whose status the call's row holds), the store holds
\* no session for that call id, whatever voice request or background task came later.
C30_NoSessionAfterTerminalStatus ==
    \A c \in CallIds :
        (Ended(c) \/ (TerminalStatusHandled /\ last.call_sid = c)) =>
            c \notin DOMAIN _conversation_states

\* the store holds no session of a call whose row holds a terminal status
C30_NoSessionOfEndedCall ==
    \A c \in CallIds : Ended(c) => c \notin DOMAIN _conversation_states

\* C30 exercised: a voice request of a call whose row holds a terminal status was
\* answered with the greeting and the store holds a new session for it
C30_SessionCreatedAfterEnd ==
    /\ VoiceOn("greeting") /\ ~last.had_state
    /\ Ended(last.call_sid)
    /\ last.call_sid \in DOMAIN _conversation_states
    /\ Len(_conversation_states[last.call_sid].history) = 1
====
